---- MODULE Spec2Model ----
(***************************************************************************)
(* WorldGen: hex-grid terrain pipeline.                                    *)
(*   generateHexMap / generateHexMapSteps  (src/src/worldGenerator.ts)     *)
(*   generateRivers                        (src/unnamed/part_001)          *)
(*   refineCoast / traceHexCoastline       (src/unnamed/part_000)          *)
(*   generateWorld                         (src/src/testSteps1and2.ts)     *)
(*                                                                         *)
(* Arrays are functions over 0..N-1, so that hexIndex(q, r) = r*cols + q   *)
(* reads as in the source.  Real numbers are fixed-point integers: the     *)
(* value v stands for v / Scale.  Pixel coordinates are kept in lattice    *)
(* units: x in units of radius*sqrt(3)/2, y in units of radius*1.5.        *)
(***************************************************************************)
EXTENDS Integers, Sequences, FiniteSets, TLC

VARIABLES
    config,      \* WorldConfig / HexMapConfig handed to the generator
    noise,       \* the noise function built from config.seed: noise[i][o] is the
                 \* sample taken for hex i at octave o
    coastNoise,  \* the noise function of refineCoast: coastNoise[i] is noise(x, y) at hex i
    pc,          \* which call has returned: "start", "map", "coast", "rivers",
                 \* "steps", "error" (the call threw), "traced", "smoothed";
                 \* "smooth" before a direct call of chaikinSmooth
    hexes,       \* result.hexes of generateHexMap, updated in place by refineCoast
    debugInfo,   \* result.debugInfo of generateHexMap
    steps,       \* result of generateHexMapSteps
    coast,       \* result of refineCoast
    traced,      \* result of traceHexCoastline
    rivers,      \* result of generateRivers
    chaikin,     \* argument and results of the two chaikinSmooth functions
    seedVar,     \* the variable seed captured by the noise closure of the latest call
    first        \* the WorldResult of the first run, once a second run has started

vars == <<config, noise, coastNoise, pc, hexes, debugInfo, steps, coast, traced,
          rivers, chaikin, seedVar, first>>

-----------------------------------------------------------------------------
(* Bounds of the model *)

\* fixed-point scale: the integer v stands for the real v / Scale
Scale == 12
\* number of distinct values the noise function takes in [-1, 1]
NoiseLevels == 3
\* largest grid dimensions
MaxCols == 3
MaxRows == 3
\* largest number of hexes of a grid in the pipeline specification
MaxHexes == 6
\* largest number of hexes of a grid in the region-labelling specification
MaxRegionHexes == 9
\* largest number of noise samples (hexes * octaves) in the elevation specification
MaxSamples == 4
\* largest octave count
MaxOctaves == 2
\* largest gradient exponent, in halves (3 stands for 1.5)
MaxExponent2 == 3
\* largest number of hexes of a grid in the coast-refinement specification
MaxCoastHexes == 6
\* largest number of erosion and dilation passes of a call, taken together
MaxPasses == 2
\* largest number of hexes of a grid in the river-source specification
MaxRiverHexes == 4
\* largest number of smoothing passes
MaxSmooth == 2
\* longest point sequence handed to chaikinSmooth in the smoothing specification
MaxPoints == 3
\* largest seed
MaxSeed == 2
\* largest number of columns of a grid in the long-path specification
MaxPathCols == 5
\* largest number of hexes of a grid in the two-run specification
MaxRunHexes == 6

\* the "null" of flowDirs (number | null)
Null == -1

-----------------------------------------------------------------------------
(* Arithmetic helpers *)

RECURSIVE ISqrt(_)
\* Math.sqrt of a non-negative integer, rounded down
ISqrt(n) ==
    IF n < 2 THEN n
    ELSE LET s == 2 * ISqrt(n \div 4)
         IN  IF (s + 1) * (s + 1) <= n THEN s + 1 ELSE s

RECURSIVE IPow(_, _)
\* b^e for a natural exponent, at scale Scale (b is at scale Scale)
IPow(b, e) == IF e = 0 THEN Scale ELSE (IPow(b, e - 1) * b) \div Scale

\* Math.pow(base, e2/2) for base at scale Scale
Pow(base, e2) ==
    IF e2 % 2 = 0 THEN IPow(base, e2 \div 2)
    ELSE ISqrt(IPow(base, e2) * Scale)

RECURSIVE SumOver(_, _)
\* sum of f[i] over the finite set S of indices
SumOver(f, S) ==
    IF S = {} THEN 0
    ELSE LET i == CHOOSE j \in S : TRUE IN f[i] + SumOver(f, S \ {i})

-----------------------------------------------------------------------------
(* The hex lattice *)

\* pointy-top axial neighbor table
directions == << <<1, 0>>, <<0, 1>>, <<-1, 1>>, <<-1, 0>>, <<0, -1>>, <<1, -1>> >>

hexIndex(q, r, cols) == r * cols + q

InGrid(q, r, cols, rows) == q >= 0 /\ q < cols /\ r >= 0 /\ r < rows

\* indices of the in-grid neighbours of hex h, in direction-table order
NeighborSeq(h, cols, rows) ==
    LET cand == [d \in 1..6 |-> <<h.q + directions[d][1], h.r + directions[d][2]>>]
        ok(d) == InGrid(cand[d][1], cand[d][2], cols, rows)
    IN  SelectSeq([d \in 1..6 |-> IF ok(d) THEN hexIndex(cand[d][1], cand[d][2], cols) ELSE Null],
                  LAMBDA i : i # Null)

Neighbors(h, cols, rows) ==
    LET nbrs == NeighborSeq(h, cols, rows) IN {nbrs[k] : k \in 1..Len(nbrs)}

\* number of in-grid neighbours of hs[i] that are land in the array hs
landNeighbors(hs, i, cols, rows) ==
    Cardinality({n \in Neighbors(hs[i], cols, rows) : hs[n].isLand})

\* an array is stored element by element (evaluated once, when it is built)
Array(f) == f @@ <<>>

\* an array built by push, as a function over 0..length-1
ToArray(seq) == Array([i \in 0..(Len(seq) - 1) |-> seq[i + 1]])

LandCount(hs) == Cardinality({i \in DOMAIN hs : hs[i].isLand})

-----------------------------------------------------------------------------
(* Step 1: elevation (worldGenerator.ts, the body of the r/q loops) *)

\* noise(sampleX, sampleY) * 0.5 + 0.5
Remap(n) == (n + Scale) \div 2

RECURSIVE OctaveLoop(_, _, _, _, _, _)
\* the octave loop: <<noiseSum, maxAmp>>; amplitude and maxAmp at scale Scale,
\* noiseSum at scale Scale^2
OctaveLoop(c, samples, o, amplitude, noiseSum, maxAmp) ==
    IF o >= c.octaves THEN <<noiseSum, maxAmp>>
    ELSE OctaveLoop(c, samples, o + 1,
                    (amplitude * c.persistence[1]) \div c.persistence[2],
                    noiseSum + Remap(samples[o]) * amplitude,
                    maxAmp + amplitude)

noiseHeight(c, samples) ==
    LET s == OctaveLoop(c, samples, 0, Scale, 0, 0) IN s[1] \div s[2]

\* pixel centre in lattice units
PixelX(q, r) == 2 * q + (r % 2)
PixelY(q, r) == r

\* dx*dx + dy*dy in units of (radius/4)^2: dx = (radius*sqrt3/2)*(x - cols),
\* dy = (radius*0.75)*(2*y - rows)
DistSq(c, q, r) ==
    LET dx == PixelX(q, r) - c.cols
        dy == 2 * PixelY(q, r) - c.rows
    IN  12 * dx * dx + 9 * dy * dy

\* variant: the vertical half-extent is left out of the corner distance
MaxDistSqWidthOnly(c) == 12 * c.cols * c.cols

\* centerX*centerX + centerY*centerY in the same units
MaxDistSq(c) == 12 * c.cols * c.cols + 9 * c.rows * c.rows

dist(c, q, r) == ISqrt(DistSq(c, q, r) * Scale * Scale)
maxDist(c) == ISqrt(MaxDistSq(c) * Scale * Scale)

\* 1 - dist / maxDist
FalloffBase(c, q, r) == Scale - (dist(c, q, r) * Scale) \div maxDist(c)

gradient(c, q, r) == Pow(FalloffBase(c, q, r), c.gradientExponent2)

Elevation(c, nz, q, r) ==
    LET sum == noiseHeight(c, nz[<<q, r>>]) * c.noiseWeight + gradient(c, q, r) * c.shapeWeight
    IN  sum \div (c.noiseWeight + c.shapeWeight)

\* variant: a hex exactly at sea level counts as land
ClassifyNonStrict(elevation, seaLevel) == elevation >= seaLevel

\* land iff strictly above sea level
Classify(elevation, seaLevel) == elevation > seaLevel

NewHex(c, nz, q, r, land) ==
    [q |-> q, r |-> r, x |-> PixelX(q, r), y |-> PixelY(q, r),
     elevation |-> Elevation(c, nz, q, r), isLand |-> land, region |-> 0]

RECURSIVE BuildHexesColumnMajor(_, _, _, _, _, _)
\* variant: the loops are nested the other way round (q outside, r inside)
BuildHexesColumnMajor(c, nz, classify, r, q, acc) ==
    IF q >= c.cols THEN acc
    ELSE IF r >= c.rows THEN BuildHexesColumnMajor(c, nz, classify, 0, q + 1, acc)
    ELSE LET h == NewHex(c, nz, q, r, FALSE)
             p == IF classify THEN [h EXCEPT !.isLand = Classify(h.elevation, c.seaLevel)]
                  ELSE h
         IN  BuildHexesColumnMajor(c, nz, classify, r + 1, q, Append(acc, p))

RECURSIVE BuildHexes(_, _, _, _, _, _)
\* for (r = 0; r < rows; r++) for (q = 0; q < cols; q++) hexes.push(...)
\* classify = TRUE: isLand = elevation > seaLevel (generateHexMap);
\* classify = FALSE: isLand = false (rawHexes of generateHexMapSteps)
BuildHexes(c, nz, classify, r, q, acc) ==
    IF r >= c.rows THEN acc
    ELSE IF q >= c.cols THEN BuildHexes(c, nz, classify, r + 1, 0, acc)
    ELSE LET h == NewHex(c, nz, q, r, FALSE)
             p == IF classify THEN [h EXCEPT !.isLand = Classify(h.elevation, c.seaLevel)]
                  ELSE h
         IN  BuildHexes(c, nz, classify, r, q + 1, Append(acc, p))

-----------------------------------------------------------------------------
(* Step 2: speck removal *)

RECURSIVE SpeckLoop(_, _, _, _, _)
\* for (i = 0; i < hexes.length; i++): the array is updated while it is scanned;
\* returns <<hexes, speckRemoved>>
SpeckLoop(hs, i, cols, rows, removed) ==
    IF i \notin DOMAIN hs THEN <<hs, removed>>
    ELSE IF ~hs[i].isLand THEN SpeckLoop(hs, i + 1, cols, rows, removed)
    ELSE IF landNeighbors(hs, i, cols, rows) < 2
         THEN SpeckLoop([hs EXCEPT ![i].isLand = FALSE], i + 1, cols, rows, removed + 1)
         ELSE SpeckLoop(hs, i + 1, cols, rows, removed)

RECURSIVE SpeckLoopOneNeighbor(_, _, _, _, _)
\* variant: one land neighbour is enough to stay land
SpeckLoopOneNeighbor(hs, i, cols, rows, removed) ==
    IF i \notin DOMAIN hs THEN <<hs, removed>>
    ELSE IF ~hs[i].isLand THEN SpeckLoopOneNeighbor(hs, i + 1, cols, rows, removed)
    ELSE IF landNeighbors(hs, i, cols, rows) < 1
         THEN SpeckLoopOneNeighbor([hs EXCEPT ![i].isLand = FALSE], i + 1, cols, rows,
                                   removed + 1)
         ELSE SpeckLoopOneNeighbor(hs, i + 1, cols, rows, removed)

SpeckRemovalOneNeighbor(hs, cols, rows) == SpeckLoopOneNeighbor(hs, 0, cols, rows, 0)

SpeckRemoval(hs, cols, rows) == SpeckLoop(hs, 0, cols, rows, 0)

-----------------------------------------------------------------------------
(* Step 3.5: region labelling *)

RECURSIVE FloodFillIntoWater(_, _, _, _, _, _)
\* variant: neighbours are pushed without the isLand test
FloodFillIntoWater(hs, queue, visited, regionId, cols, rows) ==
    IF queue = <<>> THEN <<hs, visited>>
    ELSE LET idx  == queue[Len(queue)]
             rest == SubSeq(queue, 1, Len(queue) - 1)
         IN  IF idx \in visited
             THEN FloodFillIntoWater(hs, rest, visited, regionId, cols, rows)
             ELSE LET v2   == visited \cup {idx}
                      hs2  == [hs EXCEPT ![idx].region = regionId]
                      push == SelectSeq(NeighborSeq(hs2[idx], cols, rows),
                                        LAMBDA n : n \notin v2)
                  IN  FloodFillIntoWater(hs2, rest \o push, v2, regionId, cols, rows)

RECURSIVE FloodFill(_, _, _, _, _, _)
\* while (queue.length > 0) { idx = queue.pop(); ... }: returns <<hexes, visited>>
FloodFill(hs, queue, visited, regionId, cols, rows) ==
    IF queue = <<>> THEN <<hs, visited>>
    ELSE LET idx  == queue[Len(queue)]
             rest == SubSeq(queue, 1, Len(queue) - 1)
         IN  IF idx \in visited THEN FloodFill(hs, rest, visited, regionId, cols, rows)
             ELSE LET v2   == visited \cup {idx}
                      hs2  == [hs EXCEPT ![idx].region = regionId]
                      push == SelectSeq(NeighborSeq(hs2[idx], cols, rows),
                                        LAMBDA n : n \notin v2 /\ hs2[n].isLand)
                  IN  FloodFill(hs2, rest \o push, v2, regionId, cols, rows)

RECURSIVE LabelLoopSkippingIds(_, _, _, _, _, _)
\* variant: regionId goes up by two after each fill
LabelLoopSkippingIds(hs, i, visited, regionId, cols, rows) ==
    IF i \notin DOMAIN hs THEN hs
    ELSE IF ~hs[i].isLand \/ i \in visited
         THEN LabelLoopSkippingIds(hs, i + 1, visited, regionId, cols, rows)
         ELSE LET f == FloodFill(hs, <<i>>, visited, regionId, cols, rows)
              IN  LabelLoopSkippingIds(f[1], i + 1, f[2], regionId + 2, cols, rows)

RECURSIVE LabelLoop(_, _, _, _, _, _)
\* for (i = 0; i < hexes.length; i++) { if (!isLand || visited) continue; fill; regionId++ }
LabelLoop(hs, i, visited, regionId, cols, rows) ==
    IF i \notin DOMAIN hs THEN hs
    ELSE IF ~hs[i].isLand \/ i \in visited
         THEN LabelLoop(hs, i + 1, visited, regionId, cols, rows)
         ELSE LET f == FloodFill(hs, <<i>>, visited, regionId, cols, rows)
              IN  LabelLoop(f[1], i + 1, f[2], regionId + 1, cols, rows)

labelLandRegions(hs, cols, rows) == LabelLoop(hs, 0, {}, 1, cols, rows)

-----------------------------------------------------------------------------
(* Rivers: flow direction and flow accumulation *)

RECURSIVE SteepestLoopFirstLower(_, _, _, _, _)
\* variant: the first neighbour below the hex is kept, lower ones after it are not
SteepestLoopFirstLower(hs, nbrs, k, minElev, minIdx) ==
    IF k > Len(nbrs) THEN minIdx
    ELSE IF minIdx = Null /\ hs[nbrs[k]].elevation < minElev
         THEN SteepestLoopFirstLower(hs, nbrs, k + 1, minElev, nbrs[k])
         ELSE SteepestLoopFirstLower(hs, nbrs, k + 1, minElev, minIdx)

RECURSIVE SteepestLoop(_, _, _, _, _)
\* for (const [dq, dr] of directions): keep the neighbour strictly below minElev
SteepestLoop(hs, nbrs, k, minElev, minIdx) ==
    IF k > Len(nbrs) THEN minIdx
    ELSE IF hs[nbrs[k]].elevation < minElev
         THEN SteepestLoop(hs, nbrs, k + 1, hs[nbrs[k]].elevation, nbrs[k])
         ELSE SteepestLoop(hs, nbrs, k + 1, minElev, minIdx)

RECURSIVE SteepestLoopNonStrict(_, _, _, _, _)
\* variant: a neighbour at the same elevation also counts as downhill
SteepestLoopNonStrict(hs, nbrs, k, minElev, minIdx) ==
    IF k > Len(nbrs) THEN minIdx
    ELSE IF hs[nbrs[k]].elevation <= minElev
         THEN SteepestLoopNonStrict(hs, nbrs, k + 1, hs[nbrs[k]].elevation, nbrs[k])
         ELSE SteepestLoopNonStrict(hs, nbrs, k + 1, minElev, minIdx)

FlowDirNonStrict(hs, i, cols, rows) ==
    IF ~hs[i].isLand THEN Null
    ELSE SteepestLoopNonStrict(hs, NeighborSeq(hs[i], cols, rows), 1, hs[i].elevation, Null)

\* flowDirs[i]: null for water, else the steepest-descent neighbour or null
FlowDir(hs, i, cols, rows) ==
    IF ~hs[i].isLand THEN Null
    ELSE SteepestLoop(hs, NeighborSeq(hs[i], cols, rows), 1, hs[i].elevation, Null)

ComputeFlowDirs(hs, cols, rows) == Array([i \in DOMAIN hs |-> FlowDir(hs, i, cols, rows)])

RECURSIVE visitPreOrder(_, _, _)
\* variant: idx is pushed on order before its downstream hex is visited
visitPreOrder(idx, flowDirs, st) ==
    IF idx \in st.visited THEN st
    ELSE LET st1  == [order |-> Append(st.order, idx), visited |-> st.visited \cup {idx}]
             down == flowDirs[idx]
         IN  IF down # Null THEN visitPreOrder(down, flowDirs, st1) ELSE st1

RECURSIVE visit(_, _, _)
\* function visit(idx): st = [order, visited]
visit(idx, flowDirs, st) ==
    IF idx \in st.visited THEN st
    ELSE LET st1  == [st EXCEPT !.visited = @ \cup {idx}]
             down == flowDirs[idx]
             st2  == IF down # Null THEN visit(down, flowDirs, st1) ELSE st1
         IN  [st2 EXCEPT !.order = Append(@, idx)]

RECURSIVE VisitLoop(_, _, _, _)
\* for (i = 0; i < N; i++) if (hexes[i].isLand) visit(i)
VisitLoop(hs, i, flowDirs, st) ==
    IF i \notin DOMAIN hs THEN st
    ELSE VisitLoop(hs, i + 1, flowDirs,
                   IF hs[i].isLand THEN visit(i, flowDirs, st) ELSE st)

Reverse(seq) == [k \in 1..Len(seq) |-> seq[Len(seq) + 1 - k]]

\* variant: the visit order is used without order.reverse()
AccumOrderNotReversed(hs, flowDirs) ==
    VisitLoop(hs, 0, flowDirs, [order |-> <<>>, visited |-> {}]).order

\* the order in which the accumulation loop processes the hexes
AccumOrder(hs, flowDirs) ==
    Reverse(VisitLoop(hs, 0, flowDirs, [order |-> <<>>, visited |-> {}]).order)

RECURSIVE AccumLoop(_, _, _, _)
\* for (const idx of order.reverse()) if (down !== null) flowAccum[down] += flowAccum[idx]
AccumLoop(order, k, flowDirs, flowAccum) ==
    IF k > Len(order) THEN flowAccum
    ELSE LET idx  == order[k]
             down == flowDirs[idx]
         IN  AccumLoop(order, k + 1, flowDirs,
                       IF down # Null
                       THEN [flowAccum EXCEPT ![down] = @ + flowAccum[idx]]
                       ELSE flowAccum)

\* variant: flowAccum starts at 1 for every hex, water included
ComputeFlowAccumAllOnes(hs, flowDirs) ==
    AccumLoop(AccumOrder(hs, flowDirs), 1, flowDirs, Array([i \in DOMAIN hs |-> 1]))

ComputeFlowAccum(hs, flowDirs) ==
    AccumLoop(AccumOrder(hs, flowDirs), 1, flowDirs,
              Array([i \in DOMAIN hs |-> IF hs[i].isLand THEN 1 ELSE 0]))

-----------------------------------------------------------------------------
(* Points and Chaikin smoothing *)

\* A coordinate is a pair <<a, b>> that stands for (a + b/sqrt(3)) / 16 lattice
\* units: hex centres have b = 0; radius*cos and radius*sin of a multiple of 60
\* degrees are multiples of 1/sqrt(3) lattice units.  The sixteenths keep two
\* passes of quarter weights exact.
Coord(a, b) == <<16 * a, 16 * b>>

\* { x: hexes[idx].x, y: hexes[idx].y }
HexPoint(h) == [x |-> Coord(h.x, 0), y |-> Coord(h.y, 0)]

\* (wu * u + wv * v) / 4, component by component
Mix(u, v, wu, wv) ==
    <<(wu * u[1] + wv * v[1]) \div 4, (wu * u[2] + wv * v[2]) \div 4>>

\* Q = 0.75 * p0 + 0.25 * p1
ChaikinQ(p0, p1) == [x |-> Mix(p0.x, p1.x, 3, 1), y |-> Mix(p0.y, p1.y, 3, 1)]

\* R = 0.25 * p0 + 0.75 * p1
ChaikinR(p0, p1) == [x |-> Mix(p0.x, p1.x, 1, 3), y |-> Mix(p0.y, p1.y, 1, 3)]

RECURSIVE ClosedPassNoWrap(_, _, _)
\* variant: the edge from the last point back to the first is left out
ClosedPassNoWrap(pts, i, newPts) ==
    IF i >= Len(pts) THEN newPts
    ELSE ClosedPassNoWrap(pts, i + 1,
             newPts \o <<ChaikinQ(pts[i], pts[i + 1]), ChaikinR(pts[i], pts[i + 1])>>)

RECURSIVE ClosedPass(_, _, _)
\* for (i = 0; i < pts.length; i++) { p1 = pts[(i + 1) % pts.length]; newPts.push(Q, R) }
\* (pts is 1-based here: pts[(i % n) + 1] is the point after pts[i])
ClosedPass(pts, i, newPts) ==
    IF i > Len(pts) THEN newPts
    ELSE ClosedPass(pts, i + 1,
             newPts \o <<ChaikinQ(pts[i], pts[(i % Len(pts)) + 1]),
                         ChaikinR(pts[i], pts[(i % Len(pts)) + 1])>>)

RECURSIVE chaikinSmoothAtLeastOnce(_, _)
\* variant: the first pass is made before passes is looked at
chaikinSmoothAtLeastOnce(points, passes) ==
    IF passes <= 1 THEN ClosedPass(points, 1, <<>>)
    ELSE chaikinSmoothAtLeastOnce(ClosedPass(points, 1, <<>>), passes - 1)

RECURSIVE chaikinSmooth(_, _)
\* the closed-loop chaikinSmooth: for (pass = 0; pass < passes; pass++) pts = newPts
chaikinSmooth(points, passes) ==
    IF passes <= 0 THEN points
    ELSE chaikinSmooth(ClosedPass(points, 1, <<>>), passes - 1)

RECURSIVE OpenPass(_, _, _)
\* for (i = 0; i < pts.length - 1; i++) { p1 = pts[i + 1]; newPts.push(Q); newPts.push(R) }
OpenPass(pts, i, newPts) ==
    IF i >= Len(pts) THEN newPts
    ELSE OpenPass(pts, i + 1,
             newPts \o <<ChaikinQ(pts[i], pts[i + 1]), ChaikinR(pts[i], pts[i + 1])>>)

RECURSIVE chaikinSmoothPolyline(_, _)
\* the open-polyline chaikinSmooth: for (iter = 0; iter < iterations; iter++) pts = newPts
chaikinSmoothPolyline(points, iterations) ==
    IF iterations <= 0 THEN points
    ELSE chaikinSmoothPolyline(OpenPass(points, 1, <<>>), iterations - 1)

\* the number a coordinate stands for, times 16 * 26 (1/sqrt(3) taken as 15/26)
Val(c) == 26 * c[1] + 15 * c[2]

Abs(v) == IF v < 0 THEN 0 - v ELSE v

RECURSIVE AreaSum(_, _)
\* sum += pts[i].x * pts[j].y - pts[j].x * pts[i].y, with j = (i + 1) % pts.length
AreaSum(pts, i) ==
    IF i > Len(pts) THEN 0
    ELSE Val(pts[i].x) * Val(pts[(i % Len(pts)) + 1].y)
           - Val(pts[(i % Len(pts)) + 1].x) * Val(pts[i].y)
           + AreaSum(pts, i + 1)

\* sum * 0.5, in half units of area
signedArea(pts) == AreaSum(pts, 1)

\* the polygonArea of generateHexMapSteps, in the same units
polygonArea(pts) == AreaSum(pts, 1)

\* the value undefined where a loop is expected
Undefined == <<[undefined |-> TRUE]>>

-----------------------------------------------------------------------------
(* refineCoast *)

\* number of in-grid neighbours of hs[i] that are water in the array hs
waterNeighbors(hs, i, cols, rows) ==
    Cardinality({n \in Neighbors(hs[i], cols, rows) : ~hs[n].isLand})

\* n = noise(x, y) * 0.5 + 0.5, at scale Scale
CoastN(nv) == (nv + Scale) \div 2

\* erosionThreshold = 2 + n * 2, at scale Scale
erosionThreshold(nv) == 2 * Scale + CoastN(nv) * 2

\* dilationThreshold = 4 - n * 2, at scale Scale
dilationThreshold(nv) == 4 * Scale - CoastN(nv) * 2

RECURSIVE ErosionInPlace(_, _, _, _, _)
\* variant: a hex is turned to water as soon as the scan reaches it
ErosionInPlace(hs, cn, i, cols, rows) ==
    IF i \notin DOMAIN hs THEN hs
    ELSE IF hs[i].isLand
            /\ waterNeighbors(hs, i, cols, rows) * Scale >= erosionThreshold(cn[i])
         THEN ErosionInPlace([hs EXCEPT ![i].isLand = FALSE], cn, i + 1, cols, rows)
         ELSE ErosionInPlace(hs, cn, i + 1, cols, rows)

\* variant of ErosionPass
ErosionPassInPlace(hs, cn, cols, rows) == ErosionInPlace(hs, cn, 0, cols, rows)

RECURSIVE ErosionScan(_, _, _, _, _, _)
\* for (i = 0; i < hexes.length; i++) ... if (waterNeighbors >= erosionThreshold) toWater.push(i)
ErosionScan(hs, cn, i, cols, rows, toWater) ==
    IF i \notin DOMAIN hs THEN toWater
    ELSE IF hs[i].isLand
            /\ waterNeighbors(hs, i, cols, rows) * Scale >= erosionThreshold(cn[i])
         THEN ErosionScan(hs, cn, i + 1, cols, rows, toWater \cup {i})
         ELSE ErosionScan(hs, cn, i + 1, cols, rows, toWater)

\* for (const i of marks) hexes[i].isLand = land
Mark(hs, marks, land) ==
    Array([i \in DOMAIN hs |-> IF i \in marks THEN [hs[i] EXCEPT !.isLand = land] ELSE hs[i]])

\* one erosion pass: the scan, then the marks
ErosionPass(hs, cn, cols, rows) ==
    Mark(hs, ErosionScan(hs, cn, 0, cols, rows, {}), FALSE)

RECURSIVE DilationScan(_, _, _, _, _, _)
\* for (i = 0; i < hexes.length; i++) ... if (landNeighbors >= dilationThreshold) toLand.push(i)
DilationScan(hs, cn, i, cols, rows, toLand) ==
    IF i \notin DOMAIN hs THEN toLand
    ELSE IF ~hs[i].isLand
            /\ landNeighbors(hs, i, cols, rows) * Scale >= dilationThreshold(cn[i])
         THEN DilationScan(hs, cn, i + 1, cols, rows, toLand \cup {i})
         ELSE DilationScan(hs, cn, i + 1, cols, rows, toLand)

\* variant: the dilation pass also turns the hexes of an erosion scan into water
DilationPassEroding(hs, cn, cols, rows) ==
    Mark(Mark(hs, DilationScan(hs, cn, 0, cols, rows, {}), TRUE),
         ErosionScan(hs, cn, 0, cols, rows, {}), FALSE)

\* one dilation pass: the scan, then the marks
DilationPass(hs, cn, cols, rows) ==
    Mark(hs, DilationScan(hs, cn, 0, cols, rows, {}), TRUE)

RECURSIVE ErosionPasses(_, _, _, _, _)
RECURSIVE DilationPasses(_, _, _, _, _)

\* the end of an erosion pass: the next pass starts from the marked array
ErosionNext(next, cn, pass, c, masks) ==
    ErosionPasses(next, cn, pass + 1, c, Append(masks, next))

\* for (pass = 0; pass < erosionPasses; pass++); masks records the array as it
\* is before the first pass and after each pass; returns <<hexes, masks>>
ErosionPasses(hs, cn, pass, c, masks) ==
    IF pass >= c.erosionPasses THEN <<hs, masks>>
    ELSE ErosionNext(ErosionPass(hs, cn, c.cols, c.rows), cn, pass, c, masks)

\* the end of a dilation pass
DilationNext(next, cn, pass, c, masks) ==
    DilationPasses(next, cn, pass + 1, c, Append(masks, next))

\* for (pass = 0; pass < dilationPasses; pass++); returns <<hexes, masks>>
DilationPasses(hs, cn, pass, c, masks) ==
    IF pass >= c.dilationPasses THEN <<hs, masks>>
    ELSE DilationNext(DilationPass(hs, cn, c.cols, c.rows), cn, pass, c, masks)

\* the erosion loop, then the dilation loop
ErodeThenDilate(er, cn, c) == DilationPasses(er[1], cn, 0, c, er[2])

\* the step cap of the boundary walk
MaxTraceSteps == 1000

RECURSIVE FirstUnvisitedLand(_, _, _, _)
\* for (const [ndq, ndr] of directions): the first in-grid neighbour that is land
\* and not visited, or Null (found = false)
FirstUnvisitedLand(hs, nbrs, k, visited) ==
    IF k > Len(nbrs) THEN Null
    ELSE IF hs[nbrs[k]].isLand /\ nbrs[k] \notin visited THEN nbrs[k]
    ELSE FirstUnvisitedLand(hs, nbrs, k + 1, visited)

RECURSIVE Walk(_, _, _, _, _, _, _)

\* the end of a walk step: move to the neighbour found, or stop
WalkNext(hs, next, step, visited, edge, cols, rows) ==
    IF next = Null THEN <<visited, edge>>
    ELSE Walk(hs, next, step + 1, visited, edge, cols, rows)

\* for (step = 0; step < 1000; step++): returns <<visited, edge>>
Walk(hs, cur, step, visited, edge, cols, rows) ==
    IF step >= MaxTraceSteps \/ cur \in visited THEN <<visited, edge>>
    ELSE WalkNext(hs,
                  FirstUnvisitedLand(hs, NeighborSeq(hs[cur], cols, rows), 1,
                                     visited \cup {cur}),
                  step, visited \cup {cur}, Append(edge, HexPoint(hs[cur])), cols, rows)

\* if (edge.length > 2) coastEdges.push(chaikinSmooth(edge, 2)); tr.edges keeps
\* the edge of every walk as it was recorded, before smoothing
PushEdge(tr, edge) ==
    [coastEdges |-> IF Len(edge) > 2 THEN Append(tr.coastEdges, chaikinSmooth(edge, 2))
                    ELSE tr.coastEdges,
     edges |-> Append(tr.edges, edge)]

RECURSIVE TraceLoop(_, _, _, _, _, _)

\* the end of a walk started at hex i
TraceNext(hs, i, w, tr, cols, rows) ==
    TraceLoop(hs, i + 1, w[1], PushEdge(tr, w[2]), cols, rows)

\* for (r ...) for (q ...): a walk starts at every land hex that has an in-grid
\* water neighbour and is not visited yet (i = hexIndex(q, r) runs in the same order)
TraceLoop(hs, i, visited, tr, cols, rows) ==
    IF i \notin DOMAIN hs THEN tr
    ELSE IF hs[i].isLand /\ i \notin visited /\ waterNeighbors(hs, i, cols, rows) > 0
         THEN TraceNext(hs, i, Walk(hs, i, 0, visited, <<>>, cols, rows),
                        tr, cols, rows)
         ELSE TraceLoop(hs, i + 1, visited, tr, cols, rows)

\* the boundary trace of refineCoast: coastEdges, every smoothed loop pushed in
\* the call, and edges, the vertices each walk recorded
Traces(hs, cols, rows) ==
    TraceLoop(hs, 0, {}, [coastEdges |-> <<>>, edges |-> <<>>], cols, rows)

\* the local coastEdges of refineCoast: every smoothed loop traced in the call
CoastLoops(hs, cols, rows) == Traces(hs, cols, rows).coastEdges

RECURSIVE Reduce(_, _, _)
\* coastEdges.reduce((best, loop) => |area(loop)| > |area(best)| ? loop : best, ...)
Reduce(coastEdges, k, best) ==
    IF k > Len(coastEdges) THEN best
    ELSE Reduce(coastEdges, k + 1,
             IF Abs(signedArea(coastEdges[k])) > Abs(signedArea(best))
             THEN coastEdges[k] ELSE best)

\* outer = coastEdges.reduce(..., coastEdges[0]); coastEdges[0] of an empty
\* array is undefined, and reduce returns it without calling the callback
Outer(coastEdges) ==
    Reduce(coastEdges, 1, IF Len(coastEdges) = 0 THEN Undefined ELSE coastEdges[1])

\* return { hexes, coastEdges: [ outer ] }; masks is the record of the passes
TracedResult(pm, tr) ==
    [hexes |-> pm[1], coastEdges |-> <<Outer(tr.coastEdges)>>,
     masks |-> pm[2], edges |-> tr.edges]

RefineResult(pm, c) == TracedResult(pm, Traces(pm[1], c.cols, c.rows))

\* refineCoast(hexes, { cols, rows, radius, erosionPasses, dilationPasses, coastNoiseSeed })
refineCoast(hs, cn, c) ==
    RefineResult(ErodeThenDilate(ErosionPasses(hs, cn, 0, c, <<hs>>), cn, c), c)

-----------------------------------------------------------------------------
(* traceHexCoastline *)

\* radius * Math.cos(Math.PI/3 * k) and radius * Math.sin(Math.PI/3 * k), k = 0..6,
\* in units of 1/sqrt(3) lattice units (x: radius = 2/sqrt(3), y: radius*sqrt(3)/2
\* = 1/sqrt(3))
CornerOffsets ==
    << <<2, 0>>, <<1, 1>>, <<-1, 1>>, <<-2, 0>>, <<-1, -1>>, <<1, -1>>, <<2, 0>> >>

\* { x: hex.x + radius * Math.cos(angle), y: hex.y + radius * Math.sin(angle) }
Corner(h, k) ==
    [x |-> Coord(h.x, CornerOffsets[k + 1][1]), y |-> Coord(h.y, CornerOffsets[k + 1][2])]

\* if (!neighbor || neighbor.isLand === false): side d of hex h is coastline
IsCoastSide(hs, h, d, cols, rows) ==
    \/ ~InGrid(h.q + directions[d + 1][1], h.r + directions[d + 1][2], cols, rows)
    \/ ~hs[hexIndex(h.q + directions[d + 1][1], h.r + directions[d + 1][2], cols)].isLand

RECURSIVE CollectSegments(_, _, _, _, _, _)
\* for (i ...) for (d = 0; d < 6; d++) segments.push({ start, end })
CollectSegments(hs, i, d, cols, rows, segments) ==
    IF i \notin DOMAIN hs THEN segments
    ELSE IF d >= 6 \/ ~hs[i].isLand THEN CollectSegments(hs, i + 1, 0, cols, rows, segments)
    ELSE CollectSegments(hs, i, d + 1, cols, rows,
             IF IsCoastSide(hs, hs[i], d, cols, rows)
             THEN Append(segments, [start |-> Corner(hs[i], d), end |-> Corner(hs[i], d + 1)])
             ELSE segments)

\* Math.abs(a.x - b.x) < 1e-6 && Math.abs(a.y - b.y) < 1e-6: two corners this
\* close are the same point
pointsEqual(a, b) == a = b

RECURSIVE FindIndex(_, _, _)
\* segs.findIndex(s => pointsEqual(s.start, cursor)), 0 for "not found" (idx < 0)
FindIndex(segs, cursor, k) ==
    IF k > Len(segs) THEN 0
    ELSE IF pointsEqual(segs[k].start, cursor) THEN k
    ELSE FindIndex(segs, cursor, k + 1)

\* segs.splice(idx, 1)
Splice(segs, idx) == SubSeq(segs, 1, idx - 1) \o SubSeq(segs, idx + 1, Len(segs))

RECURSIVE Chain(_, _, _)

\* the body of the inner while, with idx found
ChainNext(segs, idx, loop, start) ==
    IF idx = 0 THEN <<segs, loop>>
    ELSE Chain(Splice(segs, idx), Append(loop, segs[idx].end), start)

\* while (!pointsEqual(cursor, start)): cursor is the last point of loop;
\* returns <<segs, loop>>
Chain(segs, loop, start) ==
    IF pointsEqual(loop[Len(loop)], start) THEN <<segs, loop>>
    ELSE ChainNext(segs, FindIndex(segs, loop[Len(loop)], 1), loop, start)

RECURSIVE Stitch(_, _)

\* if (loop.length > 2) loops.push(loop)
StitchNext(ch, loops) ==
    Stitch(ch[1], IF Len(ch[2]) > 2 THEN Append(loops, ch[2]) ELSE loops)

\* while (segs.length) { { start, end } = segs.pop(); loop = [start, end]; ... }
Stitch(segs, loops) ==
    IF segs = <<>> THEN loops
    ELSE StitchNext(Chain(SubSeq(segs, 1, Len(segs) - 1),
                          <<segs[Len(segs)].start, segs[Len(segs)].end>>,
                          segs[Len(segs)].start),
                    loops)

RECURSIVE SmoothAll(_, _, _)
\* loops.map(loop => chaikinSmooth(loop, 2))
SmoothAll(loops, k, out) ==
    IF k > Len(loops) THEN out
    ELSE SmoothAll(loops, k + 1, Append(out, chaikinSmooth(loops[k], 2)))

traceHexCoastline(hs, cols, rows) ==
    SmoothAll(Stitch(CollectSegments(hs, 0, 0, cols, rows, <<>>), <<>>), 1, <<>>)

-----------------------------------------------------------------------------
(* generateRivers: sources and paths *)

\* isMax: no in-grid neighbour is strictly higher
isMax(hs, i, cols, rows) ==
    \A n \in Neighbors(hs[i], cols, rows) : ~(hs[n].elevation > hs[i].elevation)

RECURSIVE PrimaryLoopAnyAccum(_, _, _, _, _)
\* variant: local maxima become sources whatever their accumulation
PrimaryLoopAnyAccum(hs, flowAccum, c, i, primarySources) ==
    IF i \notin DOMAIN hs THEN primarySources
    ELSE PrimaryLoopAnyAccum(hs, flowAccum, c, i + 1,
             IF /\ hs[i].isLand
                /\ ~(hs[i].elevation < c.minSourceElev)
                /\ isMax(hs, i, c.cols, c.rows)
             THEN Append(primarySources, i) ELSE primarySources)

RECURSIVE PrimaryLoop(_, _, _, _, _)
\* Step 3: local maxima at or above minSourceElev with flowAccum >= tributaryAccum
PrimaryLoop(hs, flowAccum, c, i, primarySources) ==
    IF i \notin DOMAIN hs THEN primarySources
    ELSE PrimaryLoop(hs, flowAccum, c, i + 1,
             IF /\ hs[i].isLand
                /\ ~(hs[i].elevation < c.minSourceElev)
                /\ isMax(hs, i, c.cols, c.rows)
                /\ flowAccum[i] >= c.tributaryAccum
             THEN Append(primarySources, i) ELSE primarySources)

\* for (const src of primarySources) usedHexes.add(src)
SeqToSet(seq) == {seq[k] : k \in 1..Len(seq)}

RECURSIVE SecondaryLoopIgnoringUsed(_, _, _, _, _)
\* variant: usedHexes is not consulted
SecondaryLoopIgnoringUsed(hs, flowAccum, c, i, st) ==
    IF i \notin DOMAIN hs THEN st
    ELSE SecondaryLoopIgnoringUsed(hs, flowAccum, c, i + 1,
             IF /\ hs[i].isLand
                /\ flowAccum[i] >= c.secondaryStreamAccum
                /\ flowAccum[i] < c.mainRiverAccum
             THEN [sources |-> Append(st.sources, i), usedHexes |-> st.usedHexes \cup {i}]
             ELSE st)

RECURSIVE SecondaryLoop(_, _, _, _, _)
\* secondary sources: st = [sources, usedHexes]
SecondaryLoop(hs, flowAccum, c, i, st) ==
    IF i \notin DOMAIN hs THEN st
    ELSE SecondaryLoop(hs, flowAccum, c, i + 1,
             IF /\ hs[i].isLand /\ i \notin st.usedHexes
                /\ flowAccum[i] >= c.secondaryStreamAccum
                /\ flowAccum[i] < c.mainRiverAccum
             THEN [sources |-> Append(st.sources, i), usedHexes |-> st.usedHexes \cup {i}]
             ELSE st)

RECURSIVE TertiaryLoop(_, _, _, _, _)
\* tertiary sources: st = [sources, usedHexes]
TertiaryLoop(hs, flowAccum, c, i, st) ==
    IF i \notin DOMAIN hs THEN st
    ELSE TertiaryLoop(hs, flowAccum, c, i + 1,
             IF /\ hs[i].isLand /\ i \notin st.usedHexes
                /\ flowAccum[i] >= c.tertiaryStreamAccum
                /\ flowAccum[i] < c.secondaryStreamAccum
             THEN [sources |-> Append(st.sources, i), usedHexes |-> st.usedHexes \cup {i}]
             ELSE st)

\* the three source lists, tertiary after secondary after primary
SourcesAfterSecondary(hs, flowAccum, c, primarySources, sec) ==
    [primarySources   |-> primarySources,
     secondarySources |-> sec.sources,
     tertiarySources  |->
        TertiaryLoop(hs, flowAccum, c, 0,
                     [sources |-> <<>>, usedHexes |-> sec.usedHexes]).sources]

SourcesAfterPrimary(hs, flowAccum, c, primarySources) ==
    SourcesAfterSecondary(hs, flowAccum, c, primarySources,
        SecondaryLoop(hs, flowAccum, c, 0,
                      [sources |-> <<>>, usedHexes |-> SeqToSet(primarySources)]))

Sources(hs, flowAccum, c) ==
    SourcesAfterPrimary(hs, flowAccum, c, PrimaryLoop(hs, flowAccum, c, 0, <<>>))

RECURSIVE TracePathIntoWater(_, _, _, _, _)
\* variant: the loop does not test hexes[idx].isLand
TracePathIntoWater(hs, flowDirs, idx, path, cap) ==
    IF idx = Null THEN path
    ELSE IF flowDirs[idx] # Null /\ Len(path) + 1 > cap THEN Append(path, idx)
    ELSE TracePathIntoWater(hs, flowDirs, flowDirs[idx], Append(path, idx), cap)

RECURSIVE TracePathUncapped(_, _, _, _, _)
\* variant: the loop has no break on the path length
TracePathUncapped(hs, flowDirs, idx, path, cap) ==
    IF idx = Null THEN path
    ELSE IF ~hs[idx].isLand THEN path
    ELSE TracePathUncapped(hs, flowDirs, flowDirs[idx], Append(path, idx), cap)

RECURSIVE TracePath(_, _, _, _, _)
\* while (idx !== null && hexes[idx].isLand) { path.push(...);
\*   if (nextIdx !== null && path.length > cols + rows) break; idx = nextIdx; }
\* the path is kept as hex indices
TracePath(hs, flowDirs, idx, path, cap) ==
    IF idx = Null THEN path
    ELSE IF ~hs[idx].isLand THEN path
    ELSE IF flowDirs[idx] # Null /\ Len(path) + 1 > cap THEN Append(path, idx)
    ELSE TracePath(hs, flowDirs, flowDirs[idx], Append(path, idx), cap)

\* the hexes of the path traced from src
PathFrom(hs, flowDirs, src, c) == TracePath(hs, flowDirs, src, <<>>, c.cols + c.rows)

RECURSIVE PathPoints(_, _, _, _)
\* the points { x: hexes[idx].x, y: hexes[idx].y } pushed for the hexes of a path
PathPoints(hs, path, k, out) ==
    IF k > Len(path) THEN out
    ELSE PathPoints(hs, path, k + 1, Append(out, HexPoint(hs[path[k]])))

Max(a, b) == IF a >= b THEN a ELSE b

\* width of a polyline of the given order; isMain = flowAccum[src] >= mainRiverAccum
Width(order, isMain, c) ==
    IF order = 1 THEN (IF isMain THEN c.riverWidth ELSE Max(1, c.riverWidth - 1))
    ELSE IF order = 2 THEN Max(1, c.riverWidth - 2)
    ELSE 1

\* if (path.length > 4) for primary rivers, > 3 for secondary, > 2 for tertiary
LongEnough(order, path) ==
    IF order = 1 THEN Len(path) > 4
    ELSE IF order = 2 THEN Len(path) > 3
    ELSE Len(path) > 2

\* riverPolylines.push({ path: chaikinSmooth(path, smooth), width, order });
\* rv.paths keeps every path as it was traced, kept as a river or not
PushRiver(hs, path, order, isMain, c, rv) ==
    [riverPolylines |->
        IF LongEnough(order, path)
        THEN Append(rv.riverPolylines,
                    [path  |-> chaikinSmoothPolyline(PathPoints(hs, path, 1, <<>>), c.smooth),
                     width |-> Width(order, isMain, c),
                     order |-> order])
        ELSE rv.riverPolylines,
     paths |-> Append(rv.paths, [order |-> order, path |-> path])]

RECURSIVE TraceTier(_, _, _, _, _, _, _, _)
\* for (const src of sources): one of the three tracing loops of Step 5
TraceTier(hs, flowDirs, flowAccum, c, srcs, k, order, rv) ==
    IF k > Len(srcs) THEN rv
    ELSE TraceTier(hs, flowDirs, flowAccum, c, srcs, k + 1, order,
             PushRiver(hs, PathFrom(hs, flowDirs, srcs[k], c), order,
                       flowAccum[srcs[k]] >= c.mainRiverAccum, c, rv))

\* primary rivers, then secondary streams, then tertiary streams
TraceRivers(hs, flowDirs, flowAccum, c, src) ==
    TraceTier(hs, flowDirs, flowAccum, c, src.tertiarySources, 1, 3,
        TraceTier(hs, flowDirs, flowAccum, c, src.secondarySources, 1, 2,
            TraceTier(hs, flowDirs, flowAccum, c, src.primarySources, 1, 1,
                      [riverPolylines |-> <<>>, paths |-> <<>>])))

-----------------------------------------------------------------------------
(* Inputs *)

\* the values of noise(x, y) in [-1, 1], at scale Scale
NoiseVal(i) == (2 * Scale * i) \div (NoiseLevels - 1) - Scale

NoiseVals == {(2 * Scale * i) \div (NoiseLevels - 1) - Scale : i \in 0..(NoiseLevels - 1)}

\* persistence as <<numerator, denominator>>
Persistences == {<<1, 2>>, <<1, 1>>}

\* <<noiseWeight, shapeWeight>>, non-negative and not both zero
Weights == {<<1, 0>>, <<7, 3>>, <<0, 1>>}

\* sea levels: below every elevation, the lowest elevation, mid-range, above every elevation
SeaLevels == {0 - 1, 0, Scale \div 2, Scale + 1}

\* radius, noiseScale and lacunarity only scale the pixel and sample coordinates;
\* the samples themselves are the input noise
MakeConfig(cols, rows, octaves, persistence, w, e2, seaLevel) ==
    [cols |-> cols, rows |-> rows, octaves |-> octaves, persistence |-> persistence,
     noiseWeight |-> w[1], shapeWeight |-> w[2], gradientExponent2 |-> e2,
     seaLevel |-> seaLevel]

\* the river thresholds <<tributaryAccum, tertiaryStreamAccum, secondaryStreamAccum,
\* mainRiverAccum>>: the defaults, a ladder that small grids reach, and settings
\* whose ranges take in the flowAccum of a primary source
Thresholds ==
    {<<5, 10, 15, 20>>, <<1, 2, 3, 4>>, <<1, 1, 1, 3>>, <<1, 1, 2, 3>>, <<5, 1, 3, 4>>}

\* the WorldConfig of generateWorld: the HexMapConfig c with the seed, the coast
\* settings passes = <<erosionPasses, dilationPasses>> and the river settings
WorldConfig(c, seed, passes, th, smooth) ==
    c @@ [seed |-> seed,
          erosionPasses |-> passes[1], dilationPasses |-> passes[2],
          minSourceElev |-> Scale \div 2,
          tributaryAccum |-> th[1], tertiaryStreamAccum |-> th[2],
          secondaryStreamAccum |-> th[3], mainRiverAccum |-> th[4],
          riverWidth |-> 2, smooth |-> smooth]

\* the grids of at most n hexes
Grids(n) == {d \in (1..MaxCols) \X (1..MaxRows) : d[1] * d[2] <= n}

\* configurations of the pipeline specification: one octave, exponent 1.0
PipelineConfigs ==
    {MakeConfig(g[1], g[2], 1, <<1, 2>>, w, 2, sl) :
        g \in {d \in (1..MaxCols) \X (1..MaxRows) : d[1] * d[2] <= MaxHexes},
        w \in {<<1, 0>>, <<7, 3>>},
        sl \in SeaLevels}

\* configurations of the elevation specification: every blend, exponent and octave count
ElevationConfigs ==
    {MakeConfig(g[1], g[2], g[3], p, w, e2, Scale \div 2) :
        g \in {d \in (1..MaxCols) \X (1..MaxRows) \X (1..MaxOctaves) :
                  d[1] * d[2] * d[3] <= MaxSamples},
        p \in Persistences,
        w \in Weights,
        e2 \in 1..MaxExponent2}

\* configurations of the region-labelling specification: elevation is the noise
RegionConfigs ==
    {MakeConfig(g[1], g[2], 1, <<1, 2>>, <<1, 0>>, 2, Scale \div 2) :
        g \in {d \in (1..MaxCols) \X (1..MaxRows) : d[1] * d[2] <= MaxRegionHexes}}

\* the coast and river settings of the pipeline, elevation and region specifications
Defaults(configs) == {WorldConfig(c, 1, <<0, 0>>, <<1, 2, 3, 4>>, 2) : c \in configs}

\* configurations of the coast-refinement specification: elevation is the noise,
\* at most MaxPasses erosion and dilation passes in all
CoastWorlds ==
    {WorldConfig(MakeConfig(g[1], g[2], 1, <<1, 2>>, <<1, 0>>, 2, Scale \div 2),
                 1, p, <<5, 10, 15, 20>>, 2) :
        g \in Grids(MaxCoastHexes),
        p \in {d \in (0..MaxPasses) \X (0..MaxPasses) : d[1] + d[2] <= MaxPasses}}

\* configurations of the river-source specification
RiverWorlds ==
    {WorldConfig(MakeConfig(g[1], g[2], 1, <<1, 2>>, w, 2, sl), 1, <<0, 0>>, th, s) :
        g \in Grids(MaxRiverHexes),
        w \in {<<1, 0>>, <<7, 3>>},
        sl \in {0 - 1, 0},
        th \in Thresholds,
        s \in 0..MaxSmooth}

\* configurations of the two-run specification: every seed, one pass of each kind
RunWorlds ==
    {WorldConfig(MakeConfig(g[1], g[2], 1, <<1, 2>>, <<7, 3>>, 2, sl),
                 seed, <<1, 1>>, <<5, 1, 3, 4>>, 1) :
        g \in Grids(MaxRunHexes),
        sl \in {0},
        seed \in 0..MaxSeed}

\* configurations of the long-path specification: wide grids, elevation is the
\* noise, the sea below every hex or two thirds up
PathWorlds ==
    {WorldConfig(MakeConfig(cols, rows, 1, <<1, 2>>, <<1, 0>>, 2, sl), 1, <<0, 0>>, th, s) :
        cols \in 2..MaxPathCols,
        rows \in 2..MaxRows,
        sl \in {0 - 1, (2 * Scale) \div 3},
        th \in Thresholds,
        s \in 0..MaxSmooth}

\* place of the hex (q, r) on the snake that runs along row 0, steps through one
\* hex of row 1 at its end, runs back along row 2 and so on; Null off the snake
SnakePos(cols, q, r) ==
    IF r % 2 = 0
    THEN (r \div 2) * (cols + 1) + (IF (r \div 2) % 2 = 0 THEN q ELSE cols - 1 - q)
    ELSE IF q = (IF (r \div 2) % 2 = 0 THEN cols - 1 ELSE 0)
         THEN (r \div 2) * (cols + 1) + cols
         ELSE Null

\* a noise value for every level 0..Scale of elevation: falling (or rising) by one
\* level per hex along the snake, the top level off the snake
SnakeNoiseVal(pos, rising) ==
    IF pos = Null THEN Scale
    ELSE IF rising THEN (IF pos > Scale THEN Scale ELSE 2 * pos - Scale)
    ELSE (IF pos > Scale THEN 0 - Scale ELSE Scale - 2 * pos)

\* the noise function whose elevations fall (or rise) along the snake
SnakeNoise(c, rising) ==
    [p \in (0..(c.cols - 1)) \X (0..(c.rows - 1)) |->
        [o \in 0..(c.octaves - 1) |-> SnakeNoiseVal(SnakePos(c.cols, p[1], p[2]), rising)]]

\* noise functions over the hex centres of the grid, with values in vals
NoiseFields(c, vals) ==
    [(0..(c.cols - 1)) \X (0..(c.rows - 1)) -> [0..(c.octaves - 1) -> vals]]

\* coast noise functions over the hexes of the grid, with values in vals
CoastNoiseFields(c, vals) == [0..(c.cols * c.rows - 1) -> vals]

\* the point sequences handed to chaikinSmooth in the smoothing specification:
\* at most MaxPoints points, each one of four hex centres
SmoothInputs ==
    UNION {[1..n -> {HexPoint([x |-> a, y |-> b]) : a \in 0..1, b \in 0..1}] :
              n \in 0..MaxPoints}

NoResult == <<>>

\* no first run is on record
NoFirst == [done |-> FALSE]

-----------------------------------------------------------------------------
(* The seeded noise closure *)

\* seed = Math.sin(seed) * 10000: 0 stays 0, any other seed moves on (over the
\* seeds of the model, to the next one in a cycle)
NextSeed(s) == IF s = 0 THEN 0 ELSE (s % MaxSeed) + 1

\* variant: the closure goes on from the seed variable an earlier call left behind
ClosureSeedLeftOver(seed, left) == IF left = Null THEN seed ELSE left

\* the variable the closure () => { seed = Math.sin(seed) * 10000; ... } reads
\* first: the parameter seed of this call (left is what the closure of the
\* call before left in its own variable)
ClosureSeed(seed, left) == seed

\* the level of a noise value, and the value k levels on
NoiseLevel(v) == CHOOSE i \in 0..(NoiseLevels - 1) : NoiseVal(i) = v
ShiftNoise(v, k) == NoiseVal((NoiseLevel(v) + k) % NoiseLevels)

\* createNoise2D(random): nz is the function built when the closure starts from
\* config.seed; started from another value s the closure yields other random
\* numbers and createNoise2D another function
SeededNoise(nz, seed, s) ==
    IF s = seed THEN nz
    ELSE [p \in DOMAIN nz |->
            [o \in DOMAIN nz[p] |-> ShiftNoise(nz[p][o], (s - seed) % NoiseLevels)]]

-----------------------------------------------------------------------------
(* generateHexMap *)

ElevationsOf(hs) == {hs[i].elevation : i \in DOMAIN hs}

MinOf(S) == CHOOSE m \in S : \A e \in S : m <= e
MaxOf(S) == CHOOSE m \in S : \A e \in S : m >= e

\* Math.abs(elevation - seaLevel) < 0.001
NearSeaLevel(e, seaLevel) ==
    (IF e >= seaLevel THEN e - seaLevel ELSE seaLevel - e) * 1000 < Scale

RECURSIVE SumElevation(_, _)
\* totalElev += elevation
SumElevation(hs, i) ==
    IF i \notin DOMAIN hs THEN 0 ELSE hs[i].elevation + SumElevation(hs, i + 1)

\* the statistics gathered in the r/q loops and after speck removal
MakeDebugInfo(c, built, final, speckRemoved) ==
    [totalHexes   |-> Cardinality(DOMAIN final),
     landHexes    |-> LandCount(final),
     waterHexes   |-> Cardinality(DOMAIN final) - LandCount(final),
     minElevation |-> MinOf(ElevationsOf(built)),
     maxElevation |-> MaxOf(ElevationsOf(built)),
     avgElevation |-> SumElevation(built, 0) \div Cardinality(DOMAIN built),
     speckRemoved |-> speckRemoved,
     elevationStats |->
        [belowSeaLevel |-> Cardinality({i \in DOMAIN built : built[i].elevation < c.seaLevel}),
         atSeaLevel    |-> Cardinality({i \in DOMAIN built :
                                /\ ~(built[i].elevation < c.seaLevel)
                                /\ NearSeaLevel(built[i].elevation, c.seaLevel)}),
         aboveSeaLevel |-> Cardinality({i \in DOMAIN built :
                                /\ ~(built[i].elevation < c.seaLevel)
                                /\ ~NearSeaLevel(built[i].elevation, c.seaLevel)})]]

\* the hexes pushed by the r/q loops, isLand = elevation > seaLevel
ClassifiedHexes(c, nz) == ToArray(BuildHexes(c, nz, TRUE, 0, 0, <<>>))

\* the speck-removal loop and the returned record
HexMapResult(c, built, sp) ==
    [hexes |-> sp[1], debugInfo |-> MakeDebugInfo(c, built, sp[1], sp[2])]

generateHexMap(c, built) ==
    HexMapResult(c, built, SpeckRemoval(built, c.cols, c.rows))

\* the noise function of a call of generateHexMap or generateHexMapSteps
CallNoise == SeededNoise(noise, config.seed, ClosureSeed(config.seed, seedVar))

GenerateHexMap ==
    /\ pc = "start"
    /\ \E res \in {generateHexMap(config, ClassifiedHexes(config, CallNoise))} :
          /\ hexes' = res.hexes
          /\ debugInfo' = res.debugInfo
    /\ seedVar' = NextSeed(ClosureSeed(config.seed, seedVar))
    /\ pc' = "map"
    /\ UNCHANGED <<config, noise, coastNoise, steps, coast, traced, rivers, chaikin, first>>

-----------------------------------------------------------------------------
(* generateHexMapSteps *)

\* Step 1: rawHexes, every hex pushed with isLand: false
RawHexes(c, nz) == ToArray(BuildHexes(c, nz, FALSE, 0, 0, <<>>))

\* Step 2: rawHexes.map(h => ({ ...h, isLand: h.elevation > seaLevel }))
LandWaterHexes(rawHexes, seaLevel) ==
    Array([i \in DOMAIN rawHexes |->
             [rawHexes[i] EXCEPT !.isLand = Classify(rawHexes[i].elevation, seaLevel)]])

\* Step 3 and 3.5: speck removal and region labelling on the copy speckHexes
SpeckHexes(landWaterHexes, cols, rows) ==
    labelLandRegions(SpeckRemoval(landWaterHexes, cols, rows)[1], cols, rows)

\* Step 4: refineCoast(speckHexes, { cols, rows, radius, erosionPasses: 0,
\* dilationPasses: 0 }); with no pass the coast noise is never looked up
StepsCoast(speckHexes, c) ==
    refineCoast(speckHexes, <<>>, [c EXCEPT !.erosionPasses = 0, !.dilationPasses = 0])

RECURSIVE InsertLoop(_, _, _)
\* the place of loop among the sorted loops: after every loop whose absolute
\* area is not smaller; undefined goes last and is never handed to the comparison
InsertLoop(sorted, loop, k) ==
    IF k > Len(sorted) THEN Append(sorted, loop)
    ELSE IF loop # Undefined
            /\ (sorted[k] = Undefined
                \/ Abs(polygonArea(sorted[k])) < Abs(polygonArea(loop)))
         THEN SubSeq(sorted, 1, k - 1) \o <<loop>> \o SubSeq(sorted, k, Len(sorted))
         ELSE InsertLoop(sorted, loop, k + 1)

RECURSIVE SortLoops(_, _, _)
\* coastEdges.slice().sort((A, B) => Math.abs(polygonArea(B)) - Math.abs(polygonArea(A)))
SortLoops(coastEdges, k, sorted) ==
    IF k > Len(coastEdges) THEN sorted
    ELSE SortLoops(coastEdges, k + 1, InsertLoop(sorted, coastEdges[k], 1))

\* the debug logs read l.length of every element of coastEdges and
\* mainLoop.length: a TypeError when one of them is undefined
LogsThrow(coastEdges, mainLoop) ==
    \/ \E k \in 1..Len(coastEdges) : coastEdges[k] = Undefined
    \/ mainLoop = Undefined

\* mainLoop = loops.length > 0 ? loops[0] : []
MainLoop(loops) == IF Len(loops) > 0 THEN loops[1] ELSE <<>>

\* the returned record, and whether the call threw before returning it
StepsResult(rawHexes, landWaterHexes, speckHexes, rc, loops) ==
    [threw |-> LogsThrow(rc.coastEdges, MainLoop(loops)),
     value |->
        [rawHexes       |-> rawHexes,
         landWaterHexes |-> landWaterHexes,
         speckHexes     |-> speckHexes,
         refinedHexes   |-> rc.hexes,
         coastEdges     |-> loops,
         mainCoastLoop  |-> MainLoop(loops),
         labeledHexes   |-> speckHexes]]

StepsFromCoast(rawHexes, landWaterHexes, speckHexes, rc) ==
    StepsResult(rawHexes, landWaterHexes, speckHexes, rc,
                SortLoops(rc.coastEdges, 1, <<>>))

\* variant: speck removal and labelling work on the objects of landWaterHexes
\* themselves, as they would without the copy of line 91
StepsFromSpeckShared(c, rawHexes, landWaterHexes, speckHexes) ==
    StepsFromCoast(rawHexes, speckHexes, speckHexes, StepsCoast(speckHexes, c))

StepsFromSpeck(c, rawHexes, landWaterHexes, speckHexes) ==
    StepsFromCoast(rawHexes, landWaterHexes, speckHexes, StepsCoast(speckHexes, c))

StepsFromLandWater(c, rawHexes, landWaterHexes) ==
    StepsFromSpeck(c, rawHexes, landWaterHexes, SpeckHexes(landWaterHexes, c.cols, c.rows))

generateHexMapSteps(c, rawHexes) ==
    StepsFromLandWater(c, rawHexes, LandWaterHexes(rawHexes, c.seaLevel))

GenerateHexMapSteps ==
    /\ pc = "start"
    /\ \E res \in {generateHexMapSteps(config, RawHexes(config, CallNoise))} :
          /\ steps' = IF res.threw THEN NoResult ELSE res.value
          /\ pc' = IF res.threw THEN "error" ELSE "steps"
    /\ seedVar' = NextSeed(ClosureSeed(config.seed, seedVar))
    /\ UNCHANGED <<config, noise, coastNoise, hexes, debugInfo, coast, traced, rivers,
                   chaikin, first>>

-----------------------------------------------------------------------------
(* generateWorld: refineCoast and generateRivers on the hexes of generateHexMap *)

\* refineCoast works on the array it is handed: result.hexes is that array
RefineCoast ==
    /\ pc = "map"
    /\ \E res \in {refineCoast(hexes, coastNoise, config)} :
          /\ hexes' = res.hexes
          /\ coast' = res
    /\ pc' = "coast"
    /\ UNCHANGED <<config, noise, coastNoise, debugInfo, steps, traced, rivers, chaikin,
                   seedVar, first>>

\* return { riverPolylines, flowDirs, flowAccum }; sources are the three source
\* lists of Step 3 and Step 4, paths the paths traced in Step 5
RiverFromTraces(flowDirs, flowAccum, src, rv) ==
    [riverPolylines |-> rv.riverPolylines,
     flowDirs |-> flowDirs, flowAccum |-> flowAccum, sources |-> src, paths |-> rv.paths]

RiverFromSources(hs, flowDirs, flowAccum, c, src) ==
    RiverFromTraces(flowDirs, flowAccum, src, TraceRivers(hs, flowDirs, flowAccum, c, src))

RiverFromAccum(hs, flowDirs, flowAccum, c) ==
    RiverFromSources(hs, flowDirs, flowAccum, c, Sources(hs, flowAccum, c))

RiverResult(hs, flowDirs, c) ==
    RiverFromAccum(hs, flowDirs, ComputeFlowAccum(hs, flowDirs), c)

generateRivers(hs, c) == RiverResult(hs, ComputeFlowDirs(hs, c.cols, c.rows), c)

GenerateRivers ==
    /\ pc = "coast"
    /\ rivers' = generateRivers(hexes, config)
    /\ pc' = "rivers"
    /\ UNCHANGED <<config, noise, coastNoise, hexes, debugInfo, steps, coast, traced,
                   chaikin, seedVar, first>>

\* a second call of generateWorld with the same config, after the first returned
Rerun ==
    /\ pc = "rivers"
    /\ ~first.done
    /\ first' = [done |-> TRUE, hexes |-> hexes, coastEdges |-> coast.coastEdges,
                 riverResult |-> rivers]
    /\ pc' = "start"
    /\ UNCHANGED <<config, noise, coastNoise, hexes, debugInfo, steps, coast, traced,
                   rivers, chaikin, seedVar>>

-----------------------------------------------------------------------------
(* The exported functions traceHexCoastline and chaikinSmooth, called directly *)

\* traceHexCoastline on the mask that refineCoast traced
TraceHexCoastline ==
    /\ pc = "coast"
    /\ traced' = traceHexCoastline(hexes, config.cols, config.rows)
    /\ pc' = "traced"
    /\ UNCHANGED <<config, noise, coastNoise, hexes, debugInfo, steps, coast, rivers,
                   chaikin, seedVar, first>>

\* both chaikinSmooth functions on the same points and pass count
ChaikinSmooth ==
    /\ pc = "smooth"
    /\ chaikin' = [points     |-> chaikin.points,
                   passes     |-> chaikin.passes,
                   closed     |-> chaikinSmooth(chaikin.points, chaikin.passes),
                   polyline   |-> chaikinSmoothPolyline(chaikin.points, chaikin.passes)]
    /\ pc' = "smoothed"
    /\ UNCHANGED <<config, noise, coastNoise, hexes, debugInfo, steps, coast, traced,
                   rivers, seedVar, first>>

-----------------------------------------------------------------------------
(* Specifications *)

InitWith(configs, vals, coastVals, smoothInputs, at) ==
    /\ config \in configs
    /\ noise \in NoiseFields(config, vals)
    /\ coastNoise \in CoastNoiseFields(config, coastVals)
    /\ pc = at
    /\ hexes = NoResult
    /\ debugInfo = NoResult
    /\ steps = NoResult
    /\ coast = NoResult
    /\ traced = NoResult
    /\ rivers = NoResult
    /\ chaikin \in smoothInputs
    /\ seedVar = Null
    /\ first = NoFirst

\* generateWorld (and generateHexMapSteps) with no erosion or dilation pass
Init == InitWith(Defaults(PipelineConfigs), NoiseVals, {0}, {NoResult}, "start")

Next ==
    \/ GenerateHexMap
    \/ GenerateHexMapSteps
    \/ RefineCoast
    \/ GenerateRivers

Spec == Init /\ [][Next]_vars

\* the elevation field alone, over every blend, exponent and octave count
InitElevation == InitWith(Defaults(ElevationConfigs), NoiseVals, {0}, {NoResult}, "start")

NextElevation ==
    \/ GenerateHexMap
    \/ GenerateHexMapSteps

SpecElevation == InitElevation /\ [][NextElevation]_vars

\* masks on larger grids: the noise takes its two extreme values only
InitRegions == InitWith(Defaults(RegionConfigs), {0 - Scale, Scale}, {0}, {NoResult}, "start")

NextRegions == GenerateHexMapSteps

SpecRegions == InitRegions /\ [][NextRegions]_vars

\* refineCoast with erosion and dilation passes under every coast noise, and
\* traceHexCoastline on the refined mask
InitCoast ==
    InitWith(CoastWorlds, {0 - Scale, Scale}, {0 - Scale, Scale}, {NoResult}, "start")

NextCoast ==
    \/ GenerateHexMap
    \/ RefineCoast
    \/ TraceHexCoastline

SpecCoast == InitCoast /\ [][NextCoast]_vars

\* generateWorld under every setting of the river thresholds and of the smoothing
InitRivers == InitWith(RiverWorlds, NoiseVals, {0}, {NoResult}, "start")

NextRivers ==
    \/ GenerateHexMap
    \/ RefineCoast
    \/ GenerateRivers

SpecRivers == InitRivers /\ [][NextRivers]_vars

\* generateWorld on grids with a descent longer than cols + rows hexes
InitPaths ==
    /\ config \in PathWorlds
    /\ noise \in {SnakeNoise(config, rising) : rising \in BOOLEAN}
    /\ coastNoise \in CoastNoiseFields(config, {0})
    /\ pc = "start"
    /\ hexes = NoResult
    /\ debugInfo = NoResult
    /\ steps = NoResult
    /\ coast = NoResult
    /\ traced = NoResult
    /\ rivers = NoResult
    /\ chaikin = NoResult
    /\ seedVar = Null
    /\ first = NoFirst

NextPaths ==
    \/ GenerateHexMap
    \/ RefineCoast
    \/ GenerateRivers

SpecPaths == InitPaths /\ [][NextPaths]_vars

\* generateWorld called twice with the same config
InitRuns == InitWith(RunWorlds, NoiseVals, {0}, {NoResult}, "start")

NextRuns ==
    \/ GenerateHexMap
    \/ RefineCoast
    \/ GenerateRivers
    \/ Rerun

SpecRuns == InitRuns /\ [][NextRuns]_vars

\* chaikinSmooth as generateRivers calls it, and the two chaikinSmooth functions
\* called on every short point sequence
InitSmooth ==
    \/ InitRivers
    \/ InitWith(Defaults({MakeConfig(1, 1, 1, <<1, 2>>, <<1, 0>>, 2, Scale \div 2)}), {0}, {0},
                {[points |-> p, passes |-> n] : p \in SmoothInputs, n \in 0..MaxSmooth},
                "smooth")

NextSmooth ==
    \/ GenerateHexMap
    \/ RefineCoast
    \/ GenerateRivers
    \/ ChaikinSmooth

SpecSmooth == InitSmooth /\ [][NextSmooth]_vars

-----------------------------------------------------------------------------
(* Properties of the flow graph *)

LandSet(hs) == {i \in DOMAIN hs : hs[i].isLand}

RECURSIVE Follow(_, _, _)
\* the hex reached from i after at most n flowDir steps
Follow(fd, i, n) ==
    IF n = 0 \/ fd[i] = Null THEN i ELSE Follow(fd, fd[i], n - 1)

RECURSIVE ChainFrom(_, _, _)
\* the hexes on the flowDir chain that starts at j (j included), at most n steps long
ChainFrom(fd, j, n) ==
    IF n = 0 \/ fd[j] = Null THEN {j} ELSE {j} \cup ChainFrom(fd, fd[j], n - 1)

\* the land hexes whose chain passes through i
DrainsThrough(hs, fd, i) ==
    {j \in LandSet(hs) : i \in ChainFrom(fd, j, Cardinality(DOMAIN hs))}

\* C1: after generateRivers, from every land hex the flowDirs chain reaches a hex
\* whose flowDir is null within N steps, N the number of land hexes, and every
\* flowDir edge leads to a hex of strictly lower elevation (so there is no cycle).
FlowGraphAcyclic ==
    pc = "rivers" =>
        \A i \in LandSet(hexes) :
            /\ rivers.flowDirs[Follow(rivers.flowDirs, i, LandCount(hexes))] = Null
            /\ rivers.flowDirs[i] # Null =>
                  hexes[rivers.flowDirs[i]].elevation < hexes[i].elevation

\* a chain of at least N - 1 steps, with N >= 3 land hexes
FlowChainOfLengthNMinus1 ==
    /\ pc = "rivers"
    /\ LandCount(hexes) >= 3
    /\ \E i \in LandSet(hexes) :
          rivers.flowDirs[Follow(rivers.flowDirs, i, LandCount(hexes) - 2)] # Null

\* C2: flowAccum[i] is the number of land hexes whose chain passes through i (i
\* included); it is at least 1 on land and does not decrease along a flowDir edge.
FlowAccumCountsUpstream ==
    pc = "rivers" =>
        \A i \in LandSet(hexes) :
            /\ rivers.flowAccum[i] = Cardinality(DrainsThrough(hexes, rivers.flowDirs, i))
            /\ rivers.flowAccum[i] >= 1
            /\ rivers.flowDirs[i] # Null =>
                  rivers.flowAccum[rivers.flowDirs[i]] >= rivers.flowAccum[i]

\* a land hex that receives the flow of two different neighbours and passes it on
FlowConfluence ==
    /\ pc = "rivers"
    /\ \E i \in LandSet(hexes) :
          /\ rivers.flowDirs[i] # Null
          /\ rivers.flowAccum[i] >= 3
          /\ Cardinality({j \in LandSet(hexes) : rivers.flowDirs[j] = i}) >= 2

\* the hexes where a chain ends
Terminals(fd) == {i \in DOMAIN fd : fd[i] = Null}

-----------------------------------------------------------------------------
(* Properties of classification and speck removal *)

\* the mask before speck removal, as generateHexMap builds it
PreSpeckHexes == ClassifiedHexes(config, noise)

\* the land hexes of post are the land hexes of pre with 2 or more land neighbours in pre
RemovedByPreMaskCount(pre, post, cols, rows) ==
    \A i \in DOMAIN post :
        post[i].isLand <=> (pre[i].isLand /\ landNeighbors(pre, i, cols, rows) >= 2)

\* C4 as stated: speck removal counts land neighbours against the mask as it was
\* before the pass: a land hex becomes water iff it has fewer than 2 land
\* neighbours in the pre-pass mask.
SpeckCountsAgainstPrePassMask ==
    /\ pc = "map" =>
          RemovedByPreMaskCount(PreSpeckHexes, hexes, config.cols, config.rows)
    /\ pc = "steps" =>
          RemovedByPreMaskCount(steps.landWaterHexes, steps.speckHexes,
                                config.cols, config.rows)

\* C5 as stated: in the hexes returned by generateHexMap every land hex has at
\* least 2 land neighbours in that same returned mask.
NoIsolatedLandHex ==
    pc = "map" =>
        \A i \in LandSet(hexes) : landNeighbors(hexes, i, config.cols, config.rows) >= 2

\* every land hex of post was land with 2 or more land neighbours in pre
SurvivorsOf(pre, post, cols, rows) ==
    \A i \in LandSet(post) :
        pre[i].isLand /\ landNeighbors(pre, i, cols, rows) >= 2

\* C6: every hex that is land after speck removal was land with at least 2 land
\* neighbours in the mask before speck removal.
SurvivorsHadTwoLandNeighbors ==
    /\ pc = "map" => SurvivorsOf(PreSpeckHexes, hexes, config.cols, config.rows)
    /\ pc = "steps" =>
          SurvivorsOf(steps.landWaterHexes, steps.speckHexes, config.cols, config.rows)

\* speck removal took some land hexes and left others
SpeckRemovalKeepsSome ==
    /\ pc = "map"
    /\ debugInfo.speckRemoved >= 1
    /\ debugInfo.landHexes >= 3

\* in the array hs a hex is land iff its elevation is strictly above seaLevel
LandIffAbove(hs, seaLevel) ==
    \A i \in DOMAIN hs : hs[i].isLand <=> hs[i].elevation > seaLevel

\* C9: before speck removal a hex is land iff elevation > seaLevel (a hex exactly
\* at sea level is water), and no hex with elevation <= seaLevel is land in the
\* output of generateHexMap.
StrictSeaLevel ==
    /\ pc = "map" =>
          /\ LandIffAbove(PreSpeckHexes, config.seaLevel)
          /\ \A i \in LandSet(hexes) : hexes[i].elevation > config.seaLevel
    /\ pc = "steps" => LandIffAbove(steps.landWaterHexes, config.seaLevel)

\* a hex exactly at sea level next to land that survives
HexAtSeaLevel ==
    /\ pc = "map"
    /\ \E i \in DOMAIN hexes : hexes[i].elevation = config.seaLevel
    /\ LandSet(hexes) # {}

\* C10: generateHexMap returns cols*rows hexes in row-major order, the hex at
\* index r*cols+q has coordinates (q, r), each (q, r) occurs once, and
\* debugInfo.landHexes + debugInfo.waterHexes is that total.
RowMajorHexes ==
    pc = "map" =>
        /\ DOMAIN hexes = 0..(config.cols * config.rows - 1)
        /\ \A r \in 0..(config.rows - 1) : \A q \in 0..(config.cols - 1) :
              /\ hexes[hexIndex(q, r, config.cols)].q = q
              /\ hexes[hexIndex(q, r, config.cols)].r = r
        /\ \A i, j \in DOMAIN hexes :
              (hexes[i].q = hexes[j].q /\ hexes[i].r = hexes[j].r) => i = j
        /\ \A i \in DOMAIN hexes :
              InGrid(hexes[i].q, hexes[i].r, config.cols, config.rows)
        /\ debugInfo.landHexes + debugInfo.waterHexes = config.cols * config.rows
        /\ debugInfo.totalHexes = config.cols * config.rows

\* a grid with several rows and columns, land and water
RectangularGridGenerated ==
    /\ pc = "map"
    /\ config.cols = 3 /\ config.rows = 2
    /\ debugInfo.landHexes >= 1 /\ debugInfo.waterHexes >= 1

-----------------------------------------------------------------------------
(* Properties of region labelling *)

RECURSIVE LandComponent(_, _, _, _)
\* the land hexes connected to the set S by a path of land hexes
LandComponent(hs, S, cols, rows) ==
    LET more == {n \in LandSet(hs) : \E i \in S : n \in Neighbors(hs[i], cols, rows)} \ S
    IN  IF more = {} THEN S ELSE LandComponent(hs, S \cup more, cols, rows)

\* C7: after labelLandRegions two land hexes have the same region id iff a path of
\* land hexes connects them; land hexes have a positive id, water hexes none.
RegionsAreComponents ==
    pc = "steps" =>
        /\ \A i \in LandSet(steps.speckHexes) :
              /\ steps.speckHexes[i].region >= 1
              /\ {j \in LandSet(steps.speckHexes) :
                      steps.speckHexes[j].region = steps.speckHexes[i].region}
                    = LandComponent(steps.speckHexes, {i}, config.cols, config.rows)
        /\ \A i \in DOMAIN steps.speckHexes \ LandSet(steps.speckHexes) :
              steps.speckHexes[i].region = 0

\* two separate land regions, one of them of several hexes
TwoRegions ==
    /\ pc = "steps"
    /\ \E i, j, k \in LandSet(steps.speckHexes) :
          /\ steps.speckHexes[i].region # steps.speckHexes[j].region
          /\ j # k
          /\ steps.speckHexes[j].region = steps.speckHexes[k].region

-----------------------------------------------------------------------------
(* Properties of the elevation field *)

\* C8: every hex has 0 <= elevation <= 1, and the falloff base 1 - dist/maxDist is
\* never negative at a hex centre.
ElevationInUnitRange ==
    /\ pc = "map" =>
          \A i \in DOMAIN hexes :
              /\ hexes[i].elevation >= 0
              /\ hexes[i].elevation <= Scale
              /\ FalloffBase(config, hexes[i].q, hexes[i].r) >= 0
    /\ pc = "steps" =>
          \A i \in DOMAIN steps.rawHexes :
              /\ steps.rawHexes[i].elevation >= 0
              /\ steps.rawHexes[i].elevation <= Scale

\* both ends of the range occur with the falloff in the blend: a hex at the corner
\* distance (base 0) with elevation 0, and a hex with elevation 1
ElevationRangeAttained ==
    /\ pc = "map"
    /\ config.shapeWeight > 0
    /\ config.octaves >= 2
    /\ \E i \in DOMAIN hexes :
          FalloffBase(config, hexes[i].q, hexes[i].r) = 0 /\ hexes[i].elevation = 0
    /\ \E i \in DOMAIN hexes : hexes[i].elevation = Scale

-----------------------------------------------------------------------------
(* Properties of the coastline loops *)

\* C11 as stated: with zero land hexes the pipeline completes without an error
\* and the coastline loop lists are empty: coastEdges of refineCoast has no
\* element, generateHexMapSteps returns an empty coastEdges and an empty
\* mainCoastLoop, and riverPolylines of generateRivers is empty.
ZeroLandYieldsEmptyLists ==
    /\ (pc = "coast" /\ LandSet(hexes) = {}) => coast.coastEdges = <<>>
    /\ (pc = "rivers" /\ LandSet(hexes) = {}) => rivers.riverPolylines = <<>>
    /\ (pc = "steps" /\ LandSet(steps.speckHexes) = {}) =>
          steps.coastEdges = <<>> /\ steps.mainCoastLoop = <<>>
    /\ pc = "error" => LandSet(PreSpeckHexes) # {}

\* C12 as stated: coastEdges of refineCoast holds exactly one loop, a loop of
\* maximum absolute area among the smoothed loops traced in the call.
RefineCoastReturnsLargestLoop ==
    pc = "coast" =>
        /\ Len(coast.coastEdges) = 1
        /\ coast.coastEdges[1] # Undefined
        /\ \E k \in 1..Len(CoastLoops(hexes, config.cols, config.rows)) :
              CoastLoops(hexes, config.cols, config.rows)[k] = coast.coastEdges[1]
        /\ \A k \in 1..Len(CoastLoops(hexes, config.cols, config.rows)) :
              Abs(signedArea(CoastLoops(hexes, config.cols, config.rows)[k]))
                  <= Abs(signedArea(coast.coastEdges[1]))

\* C13 as stated: with no erosion and no dilation pass, the loop refineCoast
\* returns is the loop of maximum absolute area among the loops that
\* traceHexCoastline produces for the same mask.
RefinedLoopIsLargestTracedLoop ==
    (/\ pc = "traced"
     /\ config.erosionPasses = 0 /\ config.dilationPasses = 0
     /\ coast.coastEdges[1] # Undefined) =>
        \E k \in 1..Len(traced) :
            /\ traced[k] = coast.coastEdges[1]
            /\ \A j \in 1..Len(traced) :
                  Abs(signedArea(traced[j])) <= Abs(signedArea(traced[k]))

-----------------------------------------------------------------------------
(* Properties of Chaikin smoothing *)

\* C14: with 0 passes both chaikinSmooth functions return a sequence equal to
\* their input: the same points in the same order, so the same length.
ZeroPassesReturnInput ==
    /\ (pc = "smoothed" /\ chaikin.passes = 0) =>
          /\ chaikin.closed = chaikin.points
          /\ chaikin.polyline = chaikin.points
          /\ Len(chaikin.closed) = Len(chaikin.points)
    /\ (pc = "rivers" /\ config.smooth = 0) =>
          \A k \in 1..Len(rivers.riverPolylines) :
              \E i \in LandSet(hexes) :
                  rivers.riverPolylines[k].path =
                      PathPoints(hexes, PathFrom(hexes, rivers.flowDirs, i, config), 1, <<>>)

\* 0 passes on a sequence of several different points
SmoothedWithZeroPasses ==
    /\ pc = "smoothed"
    /\ chaikin.passes = 0
    /\ Len(chaikin.points) >= 2
    /\ chaikin.points[1] # chaikin.points[2]

RECURSIVE ClosedCount(_, _)
\* n points after the given number of closed passes: doubled by each pass
ClosedCount(n, passes) == IF passes = 0 THEN n ELSE ClosedCount(2 * n, passes - 1)

RECURSIVE OpenCount(_, _)
\* n >= 1 points after the given number of open passes: 2(n - 1) after each pass
\* (a pass on no point at all leaves no point)
OpenCount(n, passes) ==
    IF passes = 0 THEN n
    ELSE OpenCount(IF n >= 1 THEN 2 * (n - 1) ELSE 0, passes - 1)

\* the paths generateRivers hands to chaikinSmooth: those of the sources that
\* pass the length test of their tier
SmoothedPaths ==
    {PathFrom(hexes, rivers.flowDirs, i, config) : i \in LandSet(hexes)}

\* C15: each pass of the closed chaikinSmooth maps n (>= 1) points to 2n points,
\* each pass of the open chaikinSmooth maps n points to 2(n - 1) points, and on
\* every path generateRivers smooths that is more than n.
PassesAddVertices ==
    /\ pc = "smoothed" =>
          /\ Len(chaikin.closed) = ClosedCount(Len(chaikin.points), chaikin.passes)
          /\ Len(chaikin.polyline) = OpenCount(Len(chaikin.points), chaikin.passes)
          /\ (chaikin.passes >= 1 /\ Len(chaikin.points) >= 1) =>
                Len(chaikin.closed) > Len(chaikin.points)
    /\ pc = "rivers" =>
          \A k \in 1..Len(rivers.riverPolylines) :
              \E path \in SmoothedPaths :
                  /\ rivers.riverPolylines[k].path =
                        chaikinSmoothPolyline(PathPoints(hexes, path, 1, <<>>), config.smooth)
                  /\ Len(rivers.riverPolylines[k].path) = OpenCount(Len(path), config.smooth)
                  /\ config.smooth >= 1 => Len(rivers.riverPolylines[k].path) > Len(path)

\* passes that add vertices: three points smoothed twice by both functions
TwoPassesSmoothed ==
    /\ pc = "smoothed"
    /\ chaikin.passes = 2
    /\ Len(chaikin.points) = 3
    /\ Len(chaikin.closed) = 12
    /\ Len(chaikin.polyline) = 6

-----------------------------------------------------------------------------
(* Properties of repeated runs *)

-----------------------------------------------------------------------------
(* Properties of the river sources *)

\* C17: no hex index is in more than one of primarySources, secondarySources and
\* tertiarySources, none is listed twice, and a primary source is in neither of
\* the other lists even when its flowAccum lies in their ranges.
SourceTiersExclusive ==
    pc = "rivers" =>
        LET src == rivers.sources
            P   == SeqToSet(src.primarySources)
            S   == SeqToSet(src.secondarySources)
            T   == SeqToSet(src.tertiarySources)
        IN  /\ P \cap S = {}
            /\ P \cap T = {}
            /\ S \cap T = {}
            /\ Cardinality(P) = Len(src.primarySources)
            /\ Cardinality(S) = Len(src.secondarySources)
            /\ Cardinality(T) = Len(src.tertiarySources)

\* a primary source whose flowAccum lies in the secondary range, next to a hex
\* that is a secondary source
PrimarySourceInSecondaryRange ==
    /\ pc = "rivers"
    /\ rivers.sources.secondarySources # <<>>
    /\ \E i \in SeqToSet(rivers.sources.primarySources) :
          /\ rivers.flowAccum[i] >= config.secondaryStreamAccum
          /\ rivers.flowAccum[i] < config.mainRiverAccum

-----------------------------------------------------------------------------
(* Properties of the region ids *)

\* the connected land components of hs
LandComponents(hs, cols, rows) ==
    {LandComponent(hs, {i}, cols, rows) : i \in LandSet(hs)}

\* C18: the region ids are exactly 1..k, k the number of connected land
\* components, and a component whose lowest array index is smaller has the
\* smaller id.
RegionIdsInScanOrder ==
    pc = "steps" =>
        LET hs == steps.speckHexes
        IN  /\ {hs[i].region : i \in LandSet(hs)}
                  = 1..Cardinality(LandComponents(hs, config.cols, config.rows))
            /\ \A i, j \in LandSet(hs) :
                  MinOf(LandComponent(hs, {i}, config.cols, config.rows))
                      < MinOf(LandComponent(hs, {j}, config.cols, config.rows))
                  => hs[i].region < hs[j].region

\* two regions: the scan meets water, then a hex of region 1 once more, and only
\* then the first hex of region 2
SecondRegionAfterWater ==
    /\ pc = "steps"
    /\ \E i, j \in LandSet(steps.speckHexes) :
          /\ steps.speckHexes[i].region = 1
          /\ steps.speckHexes[j].region = 2
          /\ \E w \in DOMAIN steps.speckHexes \ LandSet(steps.speckHexes) : w < i
          /\ \A k \in LandSet(steps.speckHexes) :
                steps.speckHexes[k].region = 2 => i < k

-----------------------------------------------------------------------------
(* Properties of the accumulation order *)

\* the place of hex i in the order
Position(order, i) == CHOOSE k \in 1..Len(order) : order[k] = i

\* C19: the accumulation loop processes every land hex, no hex twice, and every
\* hex before the hex its flowDir points to, so that a hex has received all of
\* its upstream flow when it adds its flowAccum to its target; flowAccum then
\* counts every upstream land hex once.
UpstreamProcessedFirst ==
    pc = "rivers" =>
        LET order == AccumOrder(hexes, rivers.flowDirs)
        IN  /\ LandSet(hexes) \subseteq SeqToSet(order)
            /\ Cardinality(SeqToSet(order)) = Len(order)
            /\ \A j \in SeqToSet(order) :
                  rivers.flowDirs[j] # Null =>
                      /\ rivers.flowDirs[j] \in SeqToSet(order)
                      /\ Position(order, j) < Position(order, rivers.flowDirs[j])
            /\ rivers.flowAccum = AccumLoop(order, 1, rivers.flowDirs,
                   Array([i \in DOMAIN hexes |-> IF hexes[i].isLand THEN 1 ELSE 0]))
            /\ \A i \in DOMAIN hexes :
                  rivers.flowAccum[i] =
                      Cardinality(DrainsThrough(hexes, rivers.flowDirs, i))

\* a hex that drains into a hex of lower index through a chain of two edges, the
\* lower hex fed by two neighbours
DownstreamHasLowerIndex ==
    /\ pc = "rivers"
    /\ \E i, j \in LandSet(hexes) :
          /\ rivers.flowDirs[i] = j
          /\ j < i
          /\ rivers.flowDirs[j] # Null
          /\ \E k \in LandSet(hexes) \ {i} : rivers.flowDirs[k] = j

-----------------------------------------------------------------------------
(* Properties of the erosion and dilation passes *)

\* the mask after an erosion pass on the mask m, every hex judged on m itself
ErodedFrom(m, cn, cols, rows) ==
    [i \in DOMAIN m |->
        IF m[i].isLand /\ waterNeighbors(m, i, cols, rows) * Scale >= erosionThreshold(cn[i])
        THEN [m[i] EXCEPT !.isLand = FALSE] ELSE m[i]]

\* the mask after a dilation pass on the mask m, every hex judged on m itself
DilatedFrom(m, cn, cols, rows) ==
    [i \in DOMAIN m |->
        IF ~m[i].isLand /\ landNeighbors(m, i, cols, rows) * Scale >= dilationThreshold(cn[i])
        THEN [m[i] EXCEPT !.isLand = TRUE] ELSE m[i]]

\* C20: the mask after each pass is the mask before it with exactly the hexes
\* changed that meet the threshold on the mask before the pass; the first
\* erosionPasses passes are erosions, the dilationPasses passes after them are
\* dilations, and the hexes returned are the mask of the last pass.
PassesUseFrozenSnapshot ==
    pc = "coast" =>
        /\ Len(coast.masks) = 1 + config.erosionPasses + config.dilationPasses
        /\ coast.masks[1] = generateHexMap(config, ClassifiedHexes(config, noise)).hexes
        /\ \A k \in 1..config.erosionPasses :
              coast.masks[k + 1] =
                  ErodedFrom(coast.masks[k], coastNoise, config.cols, config.rows)
        /\ \A k \in (config.erosionPasses + 1)..(Len(coast.masks) - 1) :
              coast.masks[k + 1] =
                  DilatedFrom(coast.masks[k], coastNoise, config.cols, config.rows)
        /\ hexes = coast.masks[Len(coast.masks)]

\* an erosion pass whose result depends on the snapshot (eroding hex by hex
\* would have removed more land), followed by a dilation pass that adds land
ErosionThenDilationOnSnapshots ==
    /\ pc = "coast"
    /\ \E k \in 1..config.erosionPasses :
          coast.masks[k + 1] #
              ErosionPassInPlace(coast.masks[k], coastNoise, config.cols, config.rows)
    /\ \E k \in (config.erosionPasses + 1)..(Len(coast.masks) - 1) :
          coast.masks[k + 1] # coast.masks[k]

-----------------------------------------------------------------------------
(* Properties of the boundary walk and of the stitched loops *)

\* C21 as stated: every vertex a boundary walk of refineCoast records is the
\* pixel centre of a land hex that has at least one in-grid water neighbour.
WalkVerticesBorderWater ==
    pc = "coast" =>
        \A k \in 1..Len(coast.edges) :
            \A n \in 1..Len(coast.edges[k]) :
                \E i \in LandSet(hexes) :
                    /\ HexPoint(hexes[i]) = coast.edges[k][n]
                    /\ waterNeighbors(hexes, i, config.cols, config.rows) > 0

\* the chains traceHexCoastline pushes as loops, before smoothing
StitchedLoops == Stitch(CollectSegments(hexes, 0, 0, config.cols, config.rows, <<>>), <<>>)

\* C22 as stated: every loop traceHexCoastline returns is the smoothing of a
\* chain that closed, one whose end point matched its start point.
TracedLoopsAreClosed ==
    pc = "traced" =>
        /\ Len(traced) = Len(StitchedLoops)
        /\ \A k \in 1..Len(traced) :
              /\ traced[k] = chaikinSmooth(StitchedLoops[k], 2)
              /\ pointsEqual(StitchedLoops[k][Len(StitchedLoops[k])], StitchedLoops[k][1])

-----------------------------------------------------------------------------
(* Properties of the river paths *)

\* C23 as stated: with smooth >= 1 the first and the last point of every river
\* polyline are the pixel centres of the first and the last hex of the path it
\* was smoothed from.
RiverEndpointsPreserved ==
    (pc = "rivers" /\ config.smooth >= 1) =>
        \A k \in 1..Len(rivers.riverPolylines) :
            \A path \in SmoothedPaths :
                rivers.riverPolylines[k].path =
                    chaikinSmoothPolyline(PathPoints(hexes, path, 1, <<>>), config.smooth)
                => /\ rivers.riverPolylines[k].path[1] = HexPoint(hexes[path[1]])
                   /\ rivers.riverPolylines[k].path[Len(rivers.riverPolylines[k].path)]
                         = HexPoint(hexes[path[Len(path)]])

\* why the trace of a path ended after its last hex
EndsAtNull(path) == rivers.flowDirs[path[Len(path)]] = Null
EndsAtWater(path) ==
    /\ rivers.flowDirs[path[Len(path)]] # Null
    /\ ~hexes[rivers.flowDirs[path[Len(path)]]].isLand
EndsAtCap(path) ==
    /\ rivers.flowDirs[path[Len(path)]] # Null
    /\ hexes[rivers.flowDirs[path[Len(path)]]].isLand
    /\ Len(path) = config.cols + config.rows + 1

\* the sources in the order generateRivers traces them
TracedSources ==
    rivers.sources.primarySources \o rivers.sources.secondarySources
        \o rivers.sources.tertiarySources

\* C24: one path is traced from each source; it records at most cols + rows + 1
\* hexes (cols + rows flowDir steps), every step follows flowDirs, and it ends
\* where flowDir is null, where the next hex is water, or at the cap.
PathTraceCapped ==
    pc = "rivers" =>
        /\ Len(rivers.paths) = Len(TracedSources)
        /\ \A k \in 1..Len(rivers.paths) :
              LET path == rivers.paths[k].path
              IN  /\ Len(path) >= 1
                  /\ path[1] = TracedSources[k]
                  /\ Len(path) <= config.cols + config.rows + 1
                  /\ \A n \in 1..(Len(path) - 1) : path[n + 1] = rivers.flowDirs[path[n]]
                  /\ EndsAtNull(path) \/ EndsAtWater(path) \/ EndsAtCap(path)

\* a path cut by the cap while the descent goes on over land, and a path that
\* ends at a sink
PathCutByCap ==
    /\ pc = "rivers"
    /\ \E k \in 1..Len(rivers.paths) : EndsAtCap(rivers.paths[k].path)
    /\ \E k \in 1..Len(rivers.paths) :
          EndsAtNull(rivers.paths[k].path) /\ Len(rivers.paths[k].path) >= 2

-----------------------------------------------------------------------------
(* Properties of the flow directions *)

\* the hex in direction d (1..6) of hex i, or Null when it is off the grid
HexInDirection(i, d) ==
    IF InGrid(hexes[i].q + directions[d][1], hexes[i].r + directions[d][2],
              config.cols, config.rows)
    THEN hexIndex(hexes[i].q + directions[d][1], hexes[i].r + directions[d][2], config.cols)
    ELSE Null

\* the directions of hex i in which an in-grid neighbour lies strictly below it
LowerDirections(i) ==
    {d \in 1..6 : /\ HexInDirection(i, d) # Null
                  /\ hexes[HexInDirection(i, d)].elevation < hexes[i].elevation}

\* C25: flowDirs of a water hex is null; flowDirs of a land hex is null exactly
\* when no in-grid neighbour is strictly lower, and else it is the lowest of the
\* strictly lower neighbours, the first one in direction-table order on ties.
FlowDirIsSteepestDescent ==
    pc = "rivers" =>
        \A i \in DOMAIN hexes :
            /\ ~hexes[i].isLand => rivers.flowDirs[i] = Null
            /\ hexes[i].isLand =>
                  /\ rivers.flowDirs[i] = Null <=> LowerDirections(i) = {}
                  /\ rivers.flowDirs[i] # Null =>
                        \E d \in LowerDirections(i) :
                            /\ rivers.flowDirs[i] = HexInDirection(i, d)
                            /\ \A e \in LowerDirections(i) :
                                  /\ hexes[HexInDirection(i, e)].elevation
                                        >= hexes[HexInDirection(i, d)].elevation
                                  /\ e < d => hexes[HexInDirection(i, e)].elevation
                                                 > hexes[HexInDirection(i, d)].elevation

\* a land hex with a lower neighbour first in the table, a still lower one after
\* it and a third as low as that one; a land hex with no lower neighbour; and a
\* water hex below a land neighbour
SteepestAmongSeveralLower ==
    /\ pc = "rivers"
    /\ \E i \in LandSet(hexes) : \E a, b, c \in LowerDirections(i) :
          /\ a < b /\ b < c
          /\ hexes[HexInDirection(i, a)].elevation > hexes[HexInDirection(i, b)].elevation
          /\ hexes[HexInDirection(i, b)].elevation = hexes[HexInDirection(i, c)].elevation
          /\ rivers.flowDirs[i] = HexInDirection(i, b)
    /\ \E i \in LandSet(hexes) : rivers.flowDirs[i] = Null
    /\ \E i \in DOMAIN hexes \ LandSet(hexes) :
          \E d \in 1..6 : /\ HexInDirection(i, d) # Null
                          /\ hexes[HexInDirection(i, d)].isLand
                          /\ hexes[HexInDirection(i, d)].elevation > hexes[i].elevation

-----------------------------------------------------------------------------
(* Properties of the neighbour table against the pixel layout *)

\* squared distance of two hex centres in units of radius^2 / 4: x is in units
\* of radius*sqrt3/2 and y in units of radius*1.5, so this is 3*dx^2 + 9*dy^2
CentreDistSq(g, h) ==
    3 * (g.x - h.x) * (g.x - h.x) + 9 * (g.y - h.y) * (g.y - h.y)

\* two hexes share an edge: their centres are radius*sqrt3 apart
Touching(g, h) == CentreDistSq(g, h) = 12

\* C26: in even and in odd rows the in-grid neighbours of a hex given by the
\* six offsets are exactly the in-grid hexes whose centre is radius*sqrt3 away.
OffsetsSelectTouchingHexes ==
    \A i, j \in DOMAIN hexes :
        j \in Neighbors(hexes[i], config.cols, config.rows)
            <=> Touching(hexes[i], hexes[j])

-----------------------------------------------------------------------------
(* Properties of the snapshots returned by generateHexMapSteps *)

\* C27: in the returned record every hex of rawHexes has isLand = FALSE and
\* every hex of landWaterHexes has isLand = (elevation > seaLevel); both arrays
\* still hold the hexes of step 1 (same q, r, x, y, elevation, no region label),
\* whatever speck removal, region labelling and refineCoast did afterwards.
SnapshotsPreserved ==
    pc = "steps" =>
        /\ DOMAIN steps.rawHexes = DOMAIN steps.landWaterHexes
        /\ \A i \in DOMAIN steps.rawHexes :
              /\ steps.rawHexes[i].isLand = FALSE
              /\ steps.rawHexes[i].region = 0
              /\ steps.landWaterHexes[i].isLand
                    = (steps.landWaterHexes[i].elevation > config.seaLevel)
              /\ steps.landWaterHexes[i]
                    = [steps.rawHexes[i] EXCEPT !.isLand = steps.landWaterHexes[i].isLand]

\* a returned record in which speck removal has turned a land hex of
\* landWaterHexes into water and labelling has numbered the land that is left
SnapshotsDifferFromSpeckHexes ==
    /\ pc = "steps"
    /\ \E i \in DOMAIN steps.speckHexes :
          steps.landWaterHexes[i].isLand /\ ~steps.speckHexes[i].isLand
    /\ \E i \in DOMAIN steps.speckHexes :
          steps.speckHexes[i].isLand /\ steps.speckHexes[i].region > 0

-----------------------------------------------------------------------------
(* Properties of the primary sources *)

\* land hexes none of whose in-grid neighbours is strictly higher
LocalMaxima ==
    {i \in LandSet(hexes) :
        \A d \in 1..6 : HexInDirection(i, d) # Null
                           => hexes[HexInDirection(i, d)].elevation <= hexes[i].elevation}

\* C28: every land local maximum has flowAccum exactly 1, and whenever
\* tributaryAccum > 1 there is no primary source and no polyline of order 1.
LocalMaximaAccumulateOne ==
    pc = "rivers" =>
        /\ \A i \in LocalMaxima : rivers.flowAccum[i] = 1
        /\ config.tributaryAccum > 1 =>
              /\ rivers.sources.primarySources = <<>>
              /\ \A k \in 1..Len(rivers.riverPolylines) :
                    rivers.riverPolylines[k].order # 1

\* tributaryAccum > 1 and a local maximum at or above minSourceElev heads a
\* descent of more than four land hexes, yet no river of order 1 is returned
HighMaximumWithoutRiver ==
    /\ pc = "rivers"
    /\ config.tributaryAccum > 1
    /\ \E i \in LocalMaxima :
          /\ hexes[i].elevation >= config.minSourceElev
          /\ Cardinality(ChainFrom(rivers.flowDirs, i, Cardinality(DOMAIN hexes))
                            \cap LandSet(hexes)) > 4
    /\ rivers.sources.primarySources = <<>>

-----------------------------------------------------------------------------
(* Properties of the passes of refineCoast on the hex records *)

\* the hex arrays a and b hold the same hexes up to isLand
SameButIsLand(a, b) ==
    /\ DOMAIN a = DOMAIN b
    /\ \A i \in DOMAIN a : [a[i] EXCEPT !.isLand = b[i].isLand] = b[i]

\* C29: refineCoast changes nothing of a hex but isLand (q, r, x, y, elevation
\* and region stay); an erosion pass never turns water into land and a dilation
\* pass never turns land into water; with no pass of either kind the returned
\* hexes are the hexes handed in.
RefineCoastChangesOnlyIsLand ==
    pc = "coast" =>
        /\ Len(coast.masks) = 1 + config.erosionPasses + config.dilationPasses
        /\ hexes = coast.hexes
        /\ SameButIsLand(coast.masks[1], hexes)
        /\ \A k \in 1..Len(coast.masks) : SameButIsLand(coast.masks[1], coast.masks[k])
        /\ \A k \in 1..config.erosionPasses :
              LandSet(coast.masks[k + 1]) \subseteq LandSet(coast.masks[k])
        /\ \A k \in (config.erosionPasses + 1)..(Len(coast.masks) - 1) :
              LandSet(coast.masks[k]) \subseteq LandSet(coast.masks[k + 1])
        /\ (config.erosionPasses = 0 /\ config.dilationPasses = 0)
              => hexes = coast.masks[1]

\* an erosion pass has turned land into water and the dilation pass after it has
\* turned water into land
ErosionThenDilationChangedMask ==
    /\ pc = "coast"
    /\ config.erosionPasses = 1 /\ config.dilationPasses = 1
    /\ LandSet(coast.masks[2]) # LandSet(coast.masks[1])
    /\ LandSet(coast.masks[3]) # LandSet(coast.masks[2])

-----------------------------------------------------------------------------
(* Properties of the hexes of a river path *)

\* the hexes g and h are neighbours under the 6-direction table
TableNeighbours(g, h) == \E d \in 1..6 : HexInDirection(g, d) = h

\* C30: every path traced by generateRivers, before smoothing, holds only land
\* hexes (its points are their pixel centres), starts at its source, and each
\* hex is followed by a table neighbour of strictly lower elevation; no hex
\* occurs twice in a path.
PathsDescendOverLand ==
    pc = "rivers" =>
        /\ Len(rivers.paths) = Len(TracedSources)
        /\ \A k \in 1..Len(rivers.paths) :
              LET path == rivers.paths[k].path
              IN  /\ Len(path) >= 1
                  /\ path[1] = TracedSources[k]
                  /\ \A j \in 1..Len(path) : path[j] \in LandSet(hexes)
                  /\ \A j \in 1..(Len(path) - 1) :
                        /\ TableNeighbours(path[j], path[j + 1])
                        /\ hexes[path[j + 1]].elevation < hexes[path[j]].elevation
                  /\ \A a, b \in 1..Len(path) : a # b => path[a] # path[b]
        /\ config.smooth = 0 =>
              \A k \in 1..Len(rivers.riverPolylines) :
                  \A j \in 1..Len(rivers.riverPolylines[k].path) :
                      \E i \in LandSet(hexes) :
                          rivers.riverPolylines[k].path[j] = HexPoint(hexes[i])

\* an unsmoothed polyline whose path of at least three land hexes stops at the
\* last land hex before the water its flow runs into
PathStopsAtTheShore ==
    /\ pc = "rivers"
    /\ config.smooth = 0
    /\ rivers.riverPolylines # <<>>
    /\ \E k \in 1..Len(rivers.paths) :
          /\ Len(rivers.paths[k].path) >= 3
          /\ EndsAtWater(rivers.paths[k].path)

====
